---------------------------- MODULE Spec2Model ----------------------------
(***************************************************************************)
(* Model of the noctura-shield program: the incremental Merkle commitment  *)
(* accumulator (merkle.rs), the nullifier set (utils.rs) and the program   *)
(* instructions that drive them (lib.rs).                                  *)
(*                                                                         *)
(* A 32-byte value is a tuple.  An input value (a leaf, a nullifier) is    *)
(* the 1-tuple <<k>>, with <<0>> the 32 zero bytes; a keccak digest is the *)
(* pair of its two preimages, so distinct preimages give distinct digests. *)
(***************************************************************************)
EXTENDS Integers, Sequences, FiniteSets, TLC

VARIABLES
    global_state,    \* GlobalState, and whether the account exists
    verifiers,       \* the four VerifierAccounts, by account name
    merkle_tree,     \* MerkleTreeAccount
    nullifier_set,   \* NullifierSetAccount.nullifiers
    leaves,          \* history: leaves appended since the last initialize
    roots,           \* history: roots returned by those appends
    last             \* history: the last call, its argument and its outcome

vars == <<global_state, verifiers, merkle_tree, nullifier_set, leaves, roots,
          last>>

----------------------------------------------------------------------------
(* Program constants (state.rs) *)

MAX_TREE_HEIGHT == 14
MAX_ROOT_HISTORY == 32
MAX_NULLIFIERS == 256

(* Bounds of the model *)

MaxHeight == 3       \* small heights passed to initialize: 0..MaxHeight
NumLeaves == 1       \* non-zero leaf values: <<1>>..<<NumLeaves>>
RingHeight == 6      \* height of the one tall tree
PreFill == 30        \* appends to the tall tree that take a fixed leaf
MaxAppends == 34     \* appends are explored while fewer leaves are held
MaxCoreHeight == 2   \* heights of the trees of InitCore
NearFull == 254      \* tags the set of InitCore already holds
MaxProgHeight == 1   \* heights the initialize instruction succeeds with
MaxAmount == 1       \* amounts passed to the instructions: 0..MaxAmount
MaxOffset == 4       \* field inputs lie within MaxOffset of a multiple of the modulus
MaxIc == 3           \* ic points of a key: 1..MaxIc
MaxInputs == 2       \* public inputs of a call: 0..MaxInputs
MaxSpendHeight == 2  \* heights of the small trees a spend is run on

ZERO_BYTES == <<0>>
Leaves == {<<k>> : k \in 0..NumLeaves}

----------------------------------------------------------------------------
(* utils.rs *)

hash_nodes(left, right) == <<left, right>>

(* merkle.rs *)

RECURSIVE zero_hashes_loop(_, _, _)
zero_hashes_loop(n, zeros, current) ==
    IF n = 0 THEN zeros
    ELSE zero_hashes_loop(n - 1, Append(zeros, current),
                          hash_nodes(current, current))

default_zero_hashes(height) == zero_hashes_loop(height, <<>>, ZERO_BYTES)

\* state.rs: accounts that have not been created yet
NoGlobalState ==
    [exists |-> FALSE, admin |-> "", fee_collector |-> "",
     shield_fee_bps |-> 0, priority_fee_bps |-> 0]

VerifierNames ==
    {"verifier", "withdraw_verifier", "transfer_verifier",
     "partial_withdraw_verifier"}

\* A byte blob offered as a verifying key: its length and the fields its
\* bytes hold; the empty blob holds none.
EmptyBlob ==
    [len |-> 0, alpha_g1 |-> <<>>, beta_g2 |-> <<>>, gamma_g2 |-> <<>>,
     delta_g2 |-> <<>>, ic |-> <<>>]
NoVerifier == [exists |-> FALSE, verifying_key |-> EmptyBlob]
NoVerifiers == [v \in VerifierNames |-> NoVerifier]

EmptyAccount ==
    [height |-> 0, current_index |-> 0,
     filled_subtrees |-> <<>>, cached_roots |-> <<>>]

\* a variant that caches the level-0 zero hash as the first root
initialize_leaf_root(t, height) ==
    IF ~(height > 0) THEN [err |-> "CapacityExceeded", tree |-> t]
    ELSE LET fs == default_zero_hashes(height)
         IN  [err |-> "Ok",
              tree |-> [height |-> height, current_index |-> 0,
                        filled_subtrees |-> fs,
                        cached_roots |-> <<fs[1]>>]]

initialize(t, height) ==
    IF ~(height > 0) THEN [err |-> "CapacityExceeded", tree |-> t]
    ELSE LET fs == default_zero_hashes(height)
         IN  [err |-> "Ok",
              tree |-> [height |-> height, current_index |-> 0,
                        filled_subtrees |-> fs,
                        cached_roots |-> <<fs[height]>>]]

\* a variant that evicts one entry too late
push_root_late_evict(cached, root) ==
    Append(IF Len(cached) > MAX_ROOT_HISTORY THEN Tail(cached) ELSE cached,
           root)

\* a variant that makes room by dropping the newest entry
push_root_drop_newest(cached, root) ==
    Append(IF Len(cached) >= MAX_ROOT_HISTORY
           THEN SubSeq(cached, 1, Len(cached) - 1) ELSE cached,
           root)

push_root(cached, root) ==
    Append(IF Len(cached) >= MAX_ROOT_HISTORY THEN Tail(cached) ELSE cached,
           root)

\* a variant that hashes a right child on the wrong side
RECURSIVE append_loop_swapped(_, _, _, _, _, _)
append_loop_swapped(level, height, idx, current, fs, zeros) ==
    IF level >= height THEN [current |-> current, filled_subtrees |-> fs]
    ELSE IF idx % 2 = 0
         THEN append_loop_swapped(level + 1, height, idx \div 2,
                                  hash_nodes(current, zeros[level + 1]),
                                  [fs EXCEPT ![level + 1] = current], zeros)
         ELSE append_loop_swapped(level + 1, height, idx \div 2,
                                  hash_nodes(current, fs[level + 1]), fs, zeros)

RECURSIVE append_loop(_, _, _, _, _, _)
append_loop(level, height, idx, current, fs, zeros) ==
    IF level >= height THEN [current |-> current, filled_subtrees |-> fs]
    ELSE IF idx % 2 = 0
         THEN append_loop(level + 1, height, idx \div 2,
                          hash_nodes(current, zeros[level + 1]),
                          [fs EXCEPT ![level + 1] = current], zeros)
         ELSE append_loop(level + 1, height, idx \div 2,
                          hash_nodes(fs[level + 1], current), fs, zeros)

\* a variant with the capacity comparison off by one
tree_has_room_inclusive(t) == t.current_index <= 2 ^ t.height

tree_has_room(t) == t.current_index < 2 ^ t.height

\* a variant that checks the capacity after the loop has written
append_leaf_late_check(t, leaf) ==
    LET r == append_loop(0, t.height, t.current_index, leaf,
                         t.filled_subtrees, default_zero_hashes(t.height))
    IN  IF ~tree_has_room(t)
        THEN [err |-> "TreeFull",
              tree |-> [t EXCEPT !.filled_subtrees = r.filled_subtrees],
              root |-> ZERO_BYTES]
        ELSE [err |-> "Ok",
              tree |-> [height |-> t.height,
                        current_index |-> t.current_index + 1,
                        filled_subtrees |-> r.filled_subtrees,
                        cached_roots |-> push_root(t.cached_roots, r.current)],
              root |-> r.current]

\* a variant that counts two leaves for every second append
append_leaf_double_count(t, leaf) ==
    IF ~tree_has_room(t)
    THEN [err |-> "TreeFull", tree |-> t, root |-> ZERO_BYTES]
    ELSE LET r == append_loop(0, t.height, t.current_index, leaf,
                              t.filled_subtrees,
                              default_zero_hashes(t.height))
         IN  [err |-> "Ok",
              tree |-> [height |-> t.height,
                        current_index |-> t.current_index + 1
                                            + (t.current_index % 2),
                        filled_subtrees |-> r.filled_subtrees,
                        cached_roots |-> push_root(t.cached_roots, r.current)],
              root |-> r.current]

append_leaf(t, leaf) ==
    IF ~tree_has_room(t)
    THEN [err |-> "TreeFull", tree |-> t, root |-> ZERO_BYTES]
    ELSE LET r == append_loop(0, t.height, t.current_index, leaf,
                              t.filled_subtrees,
                              default_zero_hashes(t.height))
         IN  [err |-> "Ok",
              tree |-> [height |-> t.height,
                        current_index |-> t.current_index + 1,
                        filled_subtrees |-> r.filled_subtrees,
                        cached_roots |-> push_root(t.cached_roots, r.current)],
              root |-> r.current]

latest_root(t) ==
    IF t.cached_roots # <<>> THEN t.cached_roots[Len(t.cached_roots)]
    ELSE t.filled_subtrees[t.height]

contains_root(t, root) ==
    \E i \in 1..Len(t.cached_roots) : t.cached_roots[i] = root

(* utils.rs *)

\* a variant that compares with the newest entry only
track_nullifier_newest_only(set, nullifier) ==
    IF Len(set) > 0 /\ set[Len(set)] = nullifier
    THEN [err |-> "NullifierUsed", set |-> set]
    ELSE IF Len(set) >= MAX_NULLIFIERS
         THEN [err |-> "CapacityExceeded", set |-> set]
         ELSE [err |-> "Ok", set |-> Append(set, nullifier)]

\* a variant with the capacity comparison off by one
track_nullifier_one_more(set, nullifier) ==
    IF \E i \in 1..Len(set) : set[i] = nullifier
    THEN [err |-> "NullifierUsed", set |-> set]
    ELSE IF Len(set) > MAX_NULLIFIERS
         THEN [err |-> "CapacityExceeded", set |-> set]
         ELSE [err |-> "Ok", set |-> Append(set, nullifier)]

\* a variant that looks at the capacity before it scans the set
track_nullifier_capacity_first(set, nullifier) ==
    IF Len(set) >= MAX_NULLIFIERS
    THEN [err |-> "CapacityExceeded", set |-> set]
    ELSE IF \E i \in 1..Len(set) : set[i] = nullifier
         THEN [err |-> "NullifierUsed", set |-> set]
         ELSE [err |-> "Ok", set |-> Append(set, nullifier)]

track_nullifier(set, nullifier) ==
    IF \E i \in 1..Len(set) : set[i] = nullifier
    THEN [err |-> "NullifierUsed", set |-> set]
    ELSE IF Len(set) >= MAX_NULLIFIERS
         THEN [err |-> "CapacityExceeded", set |-> set]
         ELSE [err |-> "Ok", set |-> Append(set, nullifier)]

----------------------------------------------------------------------------
(* verifier.rs.  Scalars and coordinates are the byte strings the program  *)
(* computes on.  The bytes of a curve point are named by a 1-tuple: <<g>>  *)
(* names the encoding of the group element g, <<0>> being the all-zero     *)
(* encoding of the identity.  A G1 point is only compared with zero and    *)
(* handed to the curve backend; a G2 point is negated on the bytes its     *)
(* name stands for.  The backend is a function of the bytes it is given:   *)
(* a group of prime order GroupOrder stands for the curve groups, with the *)
(* pairing e(g, h) = g * h.                                                *)

G1_BYTES == 64
G2_BYTES == 128
PROOF_BYTES == G1_BYTES + G2_BYTES + G1_BYTES
LEN_PREFIX_BYTES == 4

\* PackedVerifierKey::try_from_slice: the fixed fields, the length prefix
\* and exactly that many ic points, with no byte left over.  A blob is its
\* length in bytes and the fields those bytes hold.
load_verifier_key(bytes) ==
    IF bytes.len = G1_BYTES + 3 * G2_BYTES + LEN_PREFIX_BYTES
                      + G1_BYTES * Len(bytes.ic)
    THEN [err |-> "Ok", alpha_g1 |-> bytes.alpha_g1, beta_g2 |-> bytes.beta_g2,
          gamma_g2 |-> bytes.gamma_g2, delta_g2 |-> bytes.delta_g2,
          ic |-> bytes.ic]
    ELSE [err |-> "InvalidVerifierKey", alpha_g1 |-> <<>>, beta_g2 |-> <<>>,
          gamma_g2 |-> <<>>, delta_g2 |-> <<>>, ic |-> <<>>]

\* a variant that accepts every blob that decodes
validate_verifier_key_blob_decode_only(bytes) ==
    LET key == load_verifier_key(bytes)
    IN  IF key.err # "Ok" THEN key.err
        ELSE "Ok"

validate_verifier_key_blob(bytes) ==
    LET key == load_verifier_key(bytes)
    IN  IF key.err # "Ok" THEN key.err
        ELSE IF key.ic = <<>> THEN "InvalidVerifierKey"
        ELSE "Ok"

\* The field primitives work on big-endian byte strings: a coordinate or a
\* scalar is a sequence of FIELD_BYTES bytes, most significant byte first.
FIELD_BYTES == 32
FIELD_MODULUS_BE ==
    <<48, 100, 78, 114, 225, 49, 160, 41, 184, 80, 69, 182, 129, 129, 88, 93,
      151, 129, 106, 145, 104, 113, 202, 141, 60, 32, 140, 22, 216, 124, 253, 71>>
ZERO_COORDINATE == [i \in 1..FIELD_BYTES |-> 0]

is_zero(bytes) == \A i \in 1..Len(bytes) : bytes[i] = 0

\* the first byte that differs decides
RECURSIVE cmp_be_loop(_, _, _)
cmp_be_loop(a, b, i) ==
    IF i > FIELD_BYTES THEN "Equal"
    ELSE IF a[i] # b[i] THEN (IF a[i] < b[i] THEN "Less" ELSE "Greater")
    ELSE cmp_be_loop(a, b, i + 1)

cmp_be(a, b) == cmp_be_loop(a, b, 1)

\* byte i of lhs becomes lhs[i] - rhs[i] - borrow, least significant byte
\* first; the borrow out of the most significant byte is dropped
RECURSIVE sub_assign_be_loop(_, _, _, _)
sub_assign_be_loop(lhs, rhs, i, borrow) ==
    IF i < 1 THEN lhs
    ELSE LET diff == lhs[i] - rhs[i] - borrow
         IN  sub_assign_be_loop(
                 [lhs EXCEPT ![i] = IF diff < 0 THEN diff + 256 ELSE diff],
                 rhs, i - 1, IF diff < 0 THEN 1 ELSE 0)

\* a variant with the operands exchanged
sub_assign_be_swapped(lhs, rhs) == sub_assign_be_loop(rhs, lhs, FIELD_BYTES, 0)

sub_assign_be(lhs, rhs) == sub_assign_be_loop(lhs, rhs, FIELD_BYTES, 0)

\* the while loop of reduce_mod_order_be, counting its subtractions
RECURSIVE reduce_loop(_, _)
reduce_loop(value, n) ==
    IF cmp_be(value, FIELD_MODULUS_BE) # "Less"
    THEN reduce_loop(sub_assign_be(value, FIELD_MODULUS_BE), n + 1)
    ELSE [value |-> value, subtractions |-> n]

\* a variant that subtracts the modulus at most once
reduce_mod_order_be_once(input_be) ==
    IF cmp_be(input_be, FIELD_MODULUS_BE) # "Less"
    THEN sub_assign_be(input_be, FIELD_MODULUS_BE)
    ELSE input_be

reduce_mod_order_be(input_be) == reduce_loop(input_be, 0).value

normalize_public_inputs(inputs) ==
    [i \in 1..Len(inputs) |-> reduce_mod_order_be(inputs[i])]

\* a variant without the special case for zero
negate_coordinate_wraps(coord) == sub_assign_be(FIELD_MODULUS_BE, coord)

negate_coordinate(coord) ==
    IF is_zero(coord) THEN ZERO_COORDINATE
    ELSE sub_assign_be(FIELD_MODULUS_BE, coord)

\* bytes 0..64 are kept, bytes 64..96 and 96..128 are negated
negate_g2(point) ==
    SubSeq(point, 1, 2 * FIELD_BYTES)
        \o negate_coordinate(SubSeq(point, 2 * FIELD_BYTES + 1, 3 * FIELD_BYTES))
        \o negate_coordinate(SubSeq(point, 3 * FIELD_BYTES + 1, 4 * FIELD_BYTES))

\* The curve backend (the alt_bn128 syscalls).  G1 bytes <<g>> with
\* g < GroupOrder are the group element g; <<GroupOrder>> stands for bytes
\* that are no curve point, which the backend rejects, and
\* <<GroupOrder + 1>> for bytes on which the backend replies with an
\* output that is not G1_BYTES long.
GroupOrder == 5
NoPoint == <<GroupOrder>>
BadReply == <<GroupOrder + 1>>
OnCurve(point) == point[1] < GroupOrder

\* a coordinate holding the small number k, and modulus - k
Small(k) == [ZERO_COORDINATE EXCEPT ![FIELD_BYTES] = k]
ModulusMinus(k) ==
    [FIELD_MODULUS_BE EXCEPT ![FIELD_BYTES] = FIELD_MODULUS_BE[FIELD_BYTES] - k]

\* the G2 bytes that <<h>> names: h and -h share x and have opposite y,
\* the identity is the all-zero encoding, and <<GroupOrder>> names bytes
\* that are no curve point
G2Encode(h) ==
    IF h = 0
    THEN ZERO_COORDINATE \o ZERO_COORDINATE \o ZERO_COORDINATE \o ZERO_COORDINATE
    ELSE IF h >= GroupOrder
    THEN Small(1) \o Small(1) \o Small(1) \o Small(1)
    ELSE IF 2 * h < GroupOrder
    THEN Small(h) \o Small(h + 1) \o Small(h - 1) \o Small(h)
    ELSE Small(GroupOrder - h) \o Small(GroupOrder - h + 1)
            \o (IF GroupOrder - h = 1 THEN ZERO_COORDINATE
                ELSE ModulusMinus(GroupOrder - h - 1))
            \o ModulusMinus(GroupOrder - h)
G2Bytes(point) == G2Encode(point[1])
G2Name(bytes) ==
    IF \E h \in 0..(GroupOrder - 1) : G2Encode(h) = bytes
    THEN <<CHOOSE h \in 0..(GroupOrder - 1) : G2Encode(h) = bytes>>
    ELSE NoPoint

\* the value of a big-endian scalar modulo the group order
RECURSIVE ScalarMod(_, _, _)
ScalarMod(scalar_be, i, acc) ==
    IF i > Len(scalar_be) THEN acc
    ELSE ScalarMod(scalar_be, i + 1, (acc * 256 + scalar_be[i]) % GroupOrder)

Reply(point) == [err |-> "Ok", len |-> G1_BYTES, point |-> point]
ReplyError == [err |-> "Err", len |-> 0, point |-> <<>>]
ReplyShort == [err |-> "Ok", len |-> G1_BYTES - 1, point |-> <<>>]

alt_bn128_addition(p, q) ==
    IF p = NoPoint \/ q = NoPoint THEN ReplyError
    ELSE IF p = BadReply \/ q = BadReply THEN ReplyShort
    ELSE Reply(<<(p[1] + q[1]) % GroupOrder>>)

alt_bn128_multiplication(point, scalar_be) ==
    IF point = NoPoint THEN ReplyError
    ELSE IF point = BadReply THEN ReplyShort
    ELSE Reply(<<(point[1] * ScalarMod(scalar_be, 1, 0)) % GroupOrder>>)

PAIRING_SUCCESS == [i \in 1..32 |-> IF i = 32 THEN 1 ELSE 0]
PAIRING_FAILURE == [i \in 1..32 |-> 0]

RECURSIVE PairingSum(_, _)
PairingSum(terms, i) ==
    IF i > Len(terms) THEN 0
    ELSE (terms[i][1][1] * terms[i][2][1] + PairingSum(terms, i + 1))
             % GroupOrder

\* the product of the pairings of the terms is the identity exactly when
\* the sum of the products g * h is zero
alt_bn128_pairing(input) ==
    IF \E i \in 1..Len(input) :
           ~OnCurve(input[i][1]) \/ ~OnCurve(input[i][2])
    THEN [err |-> "Err", out |-> <<>>]
    ELSE [err |-> "Ok",
          out |-> IF PairingSum(input, 1) = 0 THEN PAIRING_SUCCESS
                  ELSE PAIRING_FAILURE]

Call(fn, input) == [fn |-> fn, input |-> input]

\* a record written to the program log by sol_log_data; the coordinates of
\* a point are logged under the point's name
Log(label, data) == [label |-> label, data |-> data]

log_public_inputs(inputs) ==
    (IF Len(inputs) >= 1 THEN <<Log("shield.public_inputs[0]", inputs[1])>>
     ELSE <<>>)
        \o (IF Len(inputs) >= 2
            THEN <<Log("shield.public_inputs[1]", inputs[2])>> ELSE <<>>)

log_normalized_scalars(inputs) ==
    (IF Len(inputs) >= 1 THEN <<Log("shield.scalars[0]", inputs[1])>>
     ELSE <<>>)
        \o (IF Len(inputs) >= 2
            THEN <<Log("shield.scalars[1]", inputs[2])>> ELSE <<>>)

log_vk_accumulator(vk_x) == <<Log("shield.vk_x", vk_x)>>

\* the length check; clear_high_bit is applied to a copy and changes nothing
read_g1_be(src_be) ==
    IF src_be.len # G1_BYTES THEN [err |-> "InvalidProof", point |-> <<>>]
    ELSE [err |-> "Ok", point |-> src_be.point]

g1_add(p, q) ==
    LET result == alt_bn128_addition(p, q)
    IN  IF result.err # "Ok" THEN [err |-> "InvalidProof", point |-> <<>>]
        ELSE read_g1_be(result)

\* logs holds the records written before the call and, when the backend
\* fails, the record of its error code
g1_scalar_mul(point, scalar_be) ==
    LET raw == alt_bn128_multiplication(point, scalar_be)
        logged == <<Log("shield.scalar_mul.point_x", point),
                    Log("shield.scalar_mul.point_y", point),
                    Log("shield.scalar_mul.scalar", scalar_be)>>
        arr == read_g1_be(raw)
    IN  IF raw.err # "Ok"
        THEN [err |-> "InvalidProof", point |-> <<>>,
              logs |-> Append(logged, Log("shield.scalar_mul.error", raw.err))]
        ELSE [err |-> arr.err, point |-> arr.point, logs |-> logged]

\* g1_scalar_mul on the bytes.  The G1 bytes that <<g>> names: g and -g
\* share x and have opposite y, <<1>> is the generator (1, 2), the
\* identity is the all-zero encoding, and <<GroupOrder>> names bytes that
\* are no curve point.
G1Encode(g) ==
    IF g = 0 THEN ZERO_COORDINATE \o ZERO_COORDINATE
    ELSE IF g >= GroupOrder THEN Small(1) \o Small(1)
    ELSE IF 2 * g < GroupOrder THEN Small(g) \o Small(g + 1)
    ELSE Small(GroupOrder - g) \o ModulusMinus(GroupOrder - g + 1)
G1Name(bytes) ==
    IF \E g \in 0..(GroupOrder - 1) : G1Encode(g) = bytes
    THEN <<CHOOSE g \in 0..(GroupOrder - 1) : G1Encode(g) = bytes>>
    ELSE NoPoint

\* the backend on the 96 bytes of a point and a scalar, both big-endian
alt_bn128_multiplication_be(input) ==
    LET point == G1Name(SubSeq(input, 1, G1_BYTES))
        k == ScalarMod(SubSeq(input, G1_BYTES + 1, G1_BYTES + FIELD_BYTES), 1, 0)
    IN  IF point = NoPoint THEN [err |-> "Err", out |-> <<>>]
        ELSE [err |-> "Ok", out |-> G1Encode((point[1] * k) % GroupOrder)]

be_to_le(input) == [i \in 1..Len(input) |-> input[Len(input) + 1 - i]]

clear_high_bit(coord) == [coord EXCEPT ![1] = @ % 128]

\* clear_high_bit is handed a copy of each half of out, and out is
\* returned as it was copied from src_be
read_g1_be_bytes(src_be) ==
    IF Len(src_be) # G1_BYTES THEN [err |-> "InvalidProof", point |-> <<>>]
    ELSE LET out == src_be
             first == clear_high_bit(SubSeq(out, 1, FIELD_BYTES))
             second == clear_high_bit(SubSeq(out, FIELD_BYTES + 1, G1_BYTES))
         IN  [err |-> "Ok", point |-> out]

\* a variant that hands the coordinates to the backend little-endian
g1_scalar_mul_bytes_le(point, scalar_be) ==
    LET input == be_to_le(SubSeq(point, 1, FIELD_BYTES))
                     \o be_to_le(SubSeq(point, FIELD_BYTES + 1, G1_BYTES))
                     \o scalar_be
        raw == alt_bn128_multiplication_be(input)
    IN  IF raw.err # "Ok" THEN [err |-> "InvalidProof", point |-> <<>>]
        ELSE read_g1_be_bytes(raw.out)

g1_scalar_mul_bytes(point, scalar_be) ==
    LET input == point \o scalar_be
        raw == alt_bn128_multiplication_be(input)
    IN  IF raw.err # "Ok" THEN [err |-> "InvalidProof", point |-> <<>>]
        ELSE read_g1_be_bytes(raw.out)

\* a variant that skips a term only when its scalar is zero
RECURSIVE accumulate_ic_loop_scalar_only(_, _, _, _, _, _)
accumulate_ic_loop_scalar_only(ic, scalars, i, acc, calls, logs) ==
    IF i > Len(scalars) \/ i + 1 > Len(ic)
    THEN [err |-> "Ok", acc |-> acc, calls |-> calls, logs |-> logs]
    ELSE IF is_zero(scalars[i])
    THEN accumulate_ic_loop_scalar_only(ic, scalars, i + 1, acc, calls, logs)
    ELSE LET mul == g1_scalar_mul(ic[i + 1], scalars[i])
             c1 == Append(calls, Call("alt_bn128_multiplication",
                                      <<ic[i + 1], scalars[i]>>))
             sum == g1_add(acc, mul.point)
             c2 == Append(c1, Call("alt_bn128_addition", <<acc, mul.point>>))
             l1 == logs \o mul.logs
         IN  IF mul.err # "Ok"
             THEN [err |-> mul.err, acc |-> acc, calls |-> c1, logs |-> l1]
             ELSE IF sum.err # "Ok"
                  THEN [err |-> sum.err, acc |-> acc, calls |-> c2, logs |-> l1]
             ELSE accumulate_ic_loop_scalar_only(ic, scalars, i + 1,
                                                 sum.point, c2, l1)

\* the loop over scalars zipped with ic[1..]; calls lists the backend
\* calls made so far
RECURSIVE accumulate_ic_loop(_, _, _, _, _, _)
accumulate_ic_loop(ic, scalars, i, acc, calls, logs) ==
    IF i > Len(scalars) \/ i + 1 > Len(ic)
    THEN [err |-> "Ok", acc |-> acc, calls |-> calls, logs |-> logs]
    ELSE IF is_zero(scalars[i]) \/ is_zero(ic[i + 1])
    THEN accumulate_ic_loop(ic, scalars, i + 1, acc, calls, logs)
    ELSE LET mul == g1_scalar_mul(ic[i + 1], scalars[i])
             c1 == Append(calls, Call("alt_bn128_multiplication",
                                      <<ic[i + 1], scalars[i]>>))
             sum == g1_add(acc, mul.point)
             c2 == Append(c1, Call("alt_bn128_addition", <<acc, mul.point>>))
             l1 == logs \o mul.logs
         IN  IF mul.err # "Ok"
             THEN [err |-> mul.err, acc |-> acc, calls |-> c1, logs |-> l1]
             ELSE IF sum.err # "Ok"
                  THEN [err |-> sum.err, acc |-> acc, calls |-> c2, logs |-> l1]
             ELSE accumulate_ic_loop(ic, scalars, i + 1, sum.point, c2, l1)

accumulate_ic(ic, scalars) == accumulate_ic_loop(ic, scalars, 1, ic[1], <<>>, <<>>)

\* Groth16Proof::from_bytes: a proof blob is its length and the three
\* points its bytes hold
from_bytes(bytes) ==
    IF bytes.len # PROOF_BYTES
    THEN [err |-> "InvalidProof", a |-> <<>>, b |-> <<>>, c |-> <<>>]
    ELSE [err |-> "Ok", a |-> bytes.a, b |-> bytes.b, c |-> bytes.c]

\* negate_g2 on the bytes a G2 name stands for, worked out once for each
\* name
negate_g2_table ==
    [h \in 0..GroupOrder |-> G2Name(negate_g2(G2Bytes(<<h>>)))]
negate_g2_of(point) == negate_g2_table[point[1]]

\* a variant that checks the proof length before it looks at the key
verify_prechecks_proof_first(verifier, proof_bytes, public_inputs) ==
    IF from_bytes(proof_bytes).err # "Ok" THEN "InvalidProof"
    ELSE IF verifier.verifying_key.len = 0 THEN "VerifierMissing"
    ELSE LET key == load_verifier_key(verifier.verifying_key)
         IN  IF key.err # "Ok" THEN key.err
             ELSE IF key.ic = <<>> THEN "InvalidVerifierKey"
             ELSE IF Len(key.ic) # Len(public_inputs) + 1 THEN "InvalidProof"
             ELSE "Ok"

\* the checks verify_groth16 makes before it calls the backend
verify_prechecks(verifier, proof_bytes, public_inputs) ==
    IF verifier.verifying_key.len = 0 THEN "VerifierMissing"
    ELSE LET key == load_verifier_key(verifier.verifying_key)
         IN  IF key.err # "Ok" THEN key.err
             ELSE IF key.ic = <<>> THEN "InvalidVerifierKey"
             ELSE IF Len(key.ic) # Len(public_inputs) + 1 THEN "InvalidProof"
             ELSE from_bytes(proof_bytes).err

\* a variant that passes gamma as it is
pairing_terms_gamma_as_is(key, proof, vk_x) ==
    <<<<proof.a, proof.b>>,
      <<vk_x, key.gamma_g2>>,
      <<proof.c, negate_g2_of(key.delta_g2)>>,
      <<key.alpha_g1, negate_g2_of(key.beta_g2)>>>>

\* the four push_pair calls
pairing_terms(key, proof, vk_x) ==
    <<<<proof.a, proof.b>>,
      <<vk_x, negate_g2_of(key.gamma_g2)>>,
      <<proof.c, negate_g2_of(key.delta_g2)>>,
      <<key.alpha_g1, negate_g2_of(key.beta_g2)>>>>

\* a variant that accepts whatever the backend returns without an error
pairing_check_any_result(result) ==
    IF result.err # "Ok" THEN "InvalidProof" ELSE "Ok"

\* the backend error and the comparison with PAIRING_SUCCESS
pairing_check(result) ==
    IF result.err # "Ok" THEN "InvalidProof"
    ELSE IF result.out # PAIRING_SUCCESS THEN "InvalidProof"
    ELSE "Ok"

\* the error verify_groth16 returns, the backend calls it made and the
\* records it wrote to the program log.  log_pairing_terms writes nothing
\* unless the program is built with the pairing-logs feature.
verify_groth16(verifier, proof_bytes, public_inputs) ==
    LET pre == verify_prechecks(verifier, proof_bytes, public_inputs)
        key == load_verifier_key(verifier.verifying_key)
        proof == from_bytes(proof_bytes)
        scalars == normalize_public_inputs(public_inputs)
        vk_x == accumulate_ic(key.ic, scalars)
        input == pairing_terms(key, proof, vk_x.acc)
        result == alt_bn128_pairing(input)
        logged == log_public_inputs(public_inputs)
                      \o log_normalized_scalars(scalars) \o vk_x.logs
    IN  IF pre # "Ok" THEN [err |-> pre, calls |-> <<>>, logs |-> <<>>]
        ELSE IF vk_x.err # "Ok"
        THEN [err |-> vk_x.err, calls |-> vk_x.calls, logs |-> logged]
        ELSE [err |-> pairing_check(result),
              calls |-> Append(vk_x.calls, Call("alt_bn128_pairing", input)),
              logs |-> logged \o log_vk_accumulator(vk_x.acc)]

----------------------------------------------------------------------------
(* The accumulator on its own *)

NoCall == [op |-> "none", err |-> "Ok", arg |-> <<>>]

InitTree ==
    /\ global_state = NoGlobalState
    /\ verifiers = NoVerifiers
    /\ merkle_tree = EmptyAccount
    /\ nullifier_set = <<>>
    /\ leaves = <<>>
    /\ roots = <<>>
    /\ last = NoCall

\* Heights passed to initialize: the small ones, and one tree tall enough
\* to hold more than MAX_ROOT_HISTORY leaves.
TreeHeights == (0..MaxHeight) \cup {RingHeight}

\* Leaves passed to append_leaf: any leaf, except that the tall tree takes
\* one fixed leaf for its first PreFill appends.
AppendInputs(t) ==
    IF t.height > MaxHeight /\ t.current_index < PreFill
    THEN {<<1>>} ELSE Leaves

TreeInitialize(height) ==
    LET r == initialize(merkle_tree, height)
    IN  /\ merkle_tree' = r.tree
        /\ leaves' = IF r.err = "Ok" THEN <<>> ELSE leaves
        /\ roots' = IF r.err = "Ok" THEN <<>> ELSE roots
        /\ last' = [op |-> "initialize", err |-> r.err, arg |-> <<height>>]
        /\ UNCHANGED <<global_state, verifiers, nullifier_set>>

TreeAppend(leaf) ==
    LET r == append_leaf(merkle_tree, leaf)
    IN  /\ merkle_tree.height > 0
        /\ Len(leaves) < MaxAppends
        /\ merkle_tree' = r.tree
        /\ leaves' = IF r.err = "Ok" THEN Append(leaves, leaf) ELSE leaves
        /\ roots' = IF r.err = "Ok" THEN Append(roots, r.root) ELSE roots
        /\ last' = [op |-> "append_leaf", err |-> r.err, arg |-> leaf]
        /\ UNCHANGED <<global_state, verifiers, nullifier_set>>

NextTree ==
    \/ \E height \in TreeHeights : TreeInitialize(height)
    \/ \E leaf \in AppendInputs(merkle_tree) : TreeAppend(leaf)

SpecTree == InitTree /\ [][NextTree]_vars

----------------------------------------------------------------------------
(* The nullifier set on its own.  track_nullifier only compares tags for   *)
(* equality, so the tags are named in the order of their first use: a call *)
(* presents the next unused tag or repeats the oldest, the middle or the   *)
(* newest entry of the set.                                                *)

Range(s) == {s[i] : i \in 1..Len(s)}

TrackInputs(set) ==
    {<<Len(set) + 1>>}
        \cup {set[i] : i \in {1, (Len(set) + 1) \div 2, Len(set)}
                                \cap (1..Len(set))}

InitNull ==
    /\ global_state = NoGlobalState
    /\ verifiers = NoVerifiers
    /\ merkle_tree = EmptyAccount
    /\ nullifier_set = <<>>
    /\ leaves = <<>>
    /\ roots = <<>>
    /\ last = NoCall

Track(nullifier) ==
    LET r == track_nullifier(nullifier_set, nullifier)
    IN  /\ nullifier_set' = r.set
        /\ last' = [op |-> "track_nullifier", err |-> r.err, arg |-> nullifier]
        /\ UNCHANGED <<global_state, verifiers, merkle_tree, leaves, roots>>

NextNull == \E nullifier \in TrackInputs(nullifier_set) : Track(nullifier)

SpecNull == InitNull /\ [][NextNull]_vars

----------------------------------------------------------------------------
(* Both structures side by side, each close to its capacity: a tree of    *)
(* height 1..MaxCoreHeight and a set that already holds NearFull tags.     *)

NearFullSet == [i \in 1..NearFull |-> <<i>>]

InitCore ==
    /\ global_state = NoGlobalState
    /\ verifiers = NoVerifiers
    /\ \E height \in 1..MaxCoreHeight :
           merkle_tree = initialize(EmptyAccount, height).tree
    /\ nullifier_set = NearFullSet
    /\ leaves = <<>>
    /\ roots = <<>>
    /\ last = NoCall

NextCore ==
    \/ \E leaf \in AppendInputs(merkle_tree) : TreeAppend(leaf)
    \/ \E nullifier \in TrackInputs(nullifier_set) : Track(nullifier)

SpecCore == InitCore /\ [][NextCore]_vars

----------------------------------------------------------------------------
(* The field primitives on their own.  The reference arithmetic works on   *)
(* byte strings one byte wider than a coordinate, so that a sum of a       *)
(* coordinate and a few moduli does not overflow it.                       *)

Wide(a) == <<0>> \o a
Narrow(w) == Tail(w)

\* a + b, least significant byte first, the last carry dropped
RECURSIVE RefAddLoop(_, _, _, _, _)
RefAddLoop(a, b, i, carry, acc) ==
    IF i < 1 THEN acc
    ELSE RefAddLoop(a, b, i - 1, (a[i] + b[i] + carry) \div 256,
                    <<(a[i] + b[i] + carry) % 256>> \o acc)
RefAdd(a, b) == RefAddLoop(a, b, Len(a), 0, <<>>)

RECURSIVE Multiple(_)
Multiple(k) ==
    IF k = 0 THEN Wide(ZERO_COORDINATE)
    ELSE RefAdd(Multiple(k - 1), Wide(FIELD_MODULUS_BE))

RefLess(a, b) ==
    \E i \in 1..Len(a) : a[i] < b[i] /\ \A j \in 1..(i - 1) : a[j] = b[j]

\* the largest k with k * modulus < 2^256
MaxMultiple == 5

\* k * modulus + d for a small d of either sign
NearMultiple(k, d) ==
    LET m == Narrow(Multiple(k))
    IN  [m EXCEPT ![FIELD_BYTES] = m[FIELD_BYTES] + d]

\* a leading byte followed by one repeated byte
Pattern(first, fill) == [i \in 1..FIELD_BYTES |-> IF i = 1 THEN first ELSE fill]

\* the public input of the test reduce_mod_order_matches_snarkjs_commitment
SnarkjsCommitment ==
    <<5, 181, 13, 164, 254, 46, 164, 84, 146, 163, 153, 89, 42, 154, 53, 117,
      215, 211, 81, 98, 95, 174, 241, 57, 97, 196, 149, 146, 43, 46, 218, 243>>

FieldInputs ==
    {NearMultiple(k, d) : k \in 1..MaxMultiple, d \in (0 - MaxOffset)..MaxOffset}
        \cup {NearMultiple(0, d) : d \in 0..MaxOffset}
        \cup {Pattern(first, fill) : first \in {0, 47, 48, 49, 96, 97, 255},
                                     fill \in {0, 100, 255}}
        \cup {SnarkjsCommitment}

\* y components: zero, one, around the modulus, and far above it
Coordinates ==
    {NearMultiple(0, 0), NearMultiple(0, 1), NearMultiple(1, 0 - 1),
     NearMultiple(1, 0), NearMultiple(1, 1), NearMultiple(2, 0),
     Pattern(48, 0), Pattern(49, 0), Pattern(255, 255), SnarkjsCommitment}

G2Inputs ==
    {x \o x \o c1 \o c0 : x \in {ZERO_COORDINATE, SnarkjsCommitment},
                           c1 \in Coordinates, c0 \in Coordinates}

InitField ==
    /\ global_state = NoGlobalState
    /\ verifiers = NoVerifiers
    /\ merkle_tree = EmptyAccount
    /\ nullifier_set = <<>>
    /\ leaves = <<>>
    /\ roots = <<>>
    /\ last = NoCall

Reduce(input_be) ==
    /\ last' = [op |-> "reduce_mod_order_be", err |-> "Ok", arg |-> input_be,
                out |-> reduce_mod_order_be(input_be),
                subtractions |-> reduce_loop(input_be, 0).subtractions]
    /\ UNCHANGED <<global_state, verifiers, merkle_tree, nullifier_set,
                   leaves, roots>>

NegateG2(point) ==
    /\ last' = [op |-> "negate_g2", err |-> "Ok", arg |-> point,
                out |-> negate_g2(point)]
    /\ UNCHANGED <<global_state, verifiers, merkle_tree, nullifier_set,
                   leaves, roots>>

NextField ==
    \/ \E input_be \in FieldInputs : Reduce(input_be)
    \/ \E point \in G2Inputs : NegateG2(point)

SpecField == InitField /\ [][NextField]_vars

----------------------------------------------------------------------------
(* The keys, proofs and public inputs the instructions are given *)

\* the length of a key blob with n ic points
KeyBytes(n) == G1_BYTES + 3 * G2_BYTES + LEN_PREFIX_BYTES + G1_BYTES * n

\* a key for one public input, and the proof that satisfies it for the
\* public input 1: vk_x = 1 + 1 * 2 = 3 and 3 * 1 = 1 * 1 + 3 * 2 + 1 * 1
GoodKey ==
    [len |-> KeyBytes(2), alpha_g1 |-> <<1>>, beta_g2 |-> <<1>>,
     gamma_g2 |-> <<2>>, delta_g2 |-> <<1>>,
     ic |-> <<<<1>>, <<2>>>>]
HonestProof ==
    [len |-> PROOF_BYTES, a |-> <<3>>, b |-> <<1>>, c |-> <<1>>]

\* the empty blob, a blob one byte short, one with a byte left over, a
\* key with no ic point, and the good key
VerifierBlobs ==
    {EmptyBlob,
     [GoodKey EXCEPT !.len = KeyBytes(2) - 1],
     [GoodKey EXCEPT !.len = KeyBytes(2) + 1],
     [GoodKey EXCEPT !.len = KeyBytes(0), !.ic = <<>>],
     GoodKey}
\* the honest proof, a forged one, one that holds no curve point, and one
\* that is a byte short
Proofs ==
    {HonestProof,
     [HonestProof EXCEPT !.c = <<2>>],
     [HonestProof EXCEPT !.a = NoPoint],
     [HonestProof EXCEPT !.len = PROOF_BYTES - 1]}
\* a proof with the public inputs it is presented with
ProofCases ==
    {[proof |-> p, public_inputs |-> <<Small(1)>>] : p \in Proofs}
        \cup {[proof |-> HonestProof, public_inputs |-> <<>>]}

\* verify_groth16 on the keys and proofs above, worked out once for each
VerifyCases ==
    {<<k, pc.proof, pc.public_inputs>> : k \in VerifierBlobs, pc \in ProofCases}
verify_groth16_table ==
    [x \in VerifyCases |->
        verify_groth16([exists |-> TRUE, verifying_key |-> x[1]],
                       x[2], x[3]).err]
verify_groth16_of(verifier, proof_bytes, public_inputs) ==
    verify_groth16_table[<<verifier.verifying_key, proof_bytes, public_inputs>>]

----------------------------------------------------------------------------
(* verify_groth16 and accumulate_ic on their own: the initial state holds  *)
(* the arguments of one call, and the call records its result and the      *)
(* backend calls it made.                                                  *)

Key(alpha, beta, gamma, delta, ic) == [len |-> KeyBytes(Len(ic)), alpha_g1 |-> alpha, beta_g2 |-> beta, gamma_g2 |-> gamma, delta_g2 |-> delta, ic |-> ic]

\* the identity, two other points, bytes that are no point, and bytes the
\* backend answers with an output of the wrong length
G1Inputs == {<<0>>, <<1>>, <<2>>, NoPoint, BadReply}
IcLists == UNION {[1..n -> G1Inputs] : n \in 1..MaxIc}

\* zero, one, two, a nonzero multiple of the group order, the modulus plus
\* one, and the commitment of the repository's test
ScalarInputs ==
    {ZERO_COORDINATE, Small(1), Small(2), Small(GroupOrder),
     NearMultiple(1, 1), SnarkjsCommitment}
ScalarLists == UNION {[1..n -> ScalarInputs] : n \in 0..MaxInputs}

\* the blobs that are no key, and keys over every ic list, one of them
\* with an alpha, a gamma or a delta that is no curve point
VerifyKeys ==
    VerifierBlobs
        \cup {Key(<<1>>, <<1>>, <<2>>, <<1>>, ic) : ic \in IcLists}
        \cup {[GoodKey EXCEPT !.alpha_g1 = NoPoint],
              [GoodKey EXCEPT !.gamma_g2 = NoPoint],
              [GoodKey EXCEPT !.delta_g2 = <<3>>]}
VerifyProofs ==
    Proofs \cup {[HonestProof EXCEPT !.len = PROOF_BYTES + 1],
                 [HonestProof EXCEPT !.a = <<1>>, !.c = <<2>>],
                 [HonestProof EXCEPT !.a = <<0>>, !.c = <<4>>]}
VerifyInputs ==
    {inputs \in ScalarLists :
        \A i \in 1..Len(inputs) : inputs[i] \notin {Small(2), SnarkjsCommitment}}

\* two keys for one public input, and every 256-byte proof over the points
\* of the group and the bytes that are no point: the proofs that satisfy a
\* key and every way of changing one of their three points
FlipKeys == {GoodKey, Key(<<2>>, <<3>>, <<1>>, <<4>>, <<<<1>>, <<3>>>>)}
FlipInputs == {<<Small(1)>>, <<Small(2)>>}
ProofPoints == {<<g>> : g \in 0..(GroupOrder - 1)} \cup {NoPoint}
FlipProofs ==
    {[len |-> PROOF_BYTES, a |-> a, b |-> b, c |-> c] :
        a \in ProofPoints, b \in ProofPoints, c \in ProofPoints}

\* the bytes of every point of the group and bytes that are no point
MulPoints == {G1Encode(g) : g \in 0..GroupOrder}

\* the inputs of read_g1_be: every point, all bytes 255, each with the top
\* bit of bytes 0, 1 and 32 raised or not, and inputs one byte short, one
\* byte long, half as long and empty
Raised(bytes, at) ==
    [i \in 1..Len(bytes) |->
        IF i \in at /\ bytes[i] < 128 THEN bytes[i] + 128 ELSE bytes[i]]
ReadInputs ==
    LET bases == MulPoints \cup {[i \in 1..G1_BYTES |-> 255]}
    IN  {Raised(b, at) : b \in bases, at \in SUBSET {1, 2, FIELD_BYTES + 1}}
          \cup {SubSeq(b, 1, G1_BYTES - 1) : b \in bases}
          \cup {b \o <<0>> : b \in bases}
          \cup {SubSeq(b, 1, FIELD_BYTES) : b \in bases}
          \cup {<<>>}

InitVerify ==
    /\ global_state = NoGlobalState
    /\ verifiers = NoVerifiers
    /\ merkle_tree = EmptyAccount
    /\ nullifier_set = <<>>
    /\ leaves = <<>>
    /\ roots = <<>>
    /\ \/ \E key \in VerifyKeys, proof \in VerifyProofs, inputs \in VerifyInputs :
              last = [op |-> "call", fn |-> "verify_groth16", key |-> key,
                      proof |-> proof, public_inputs |-> inputs]
       \/ \E key \in FlipKeys, proof \in FlipProofs, inputs \in FlipInputs :
              last = [op |-> "call", fn |-> "verify_groth16", key |-> key,
                      proof |-> proof, public_inputs |-> inputs]
       \/ \E ic \in IcLists, scalars \in ScalarLists :
              last = [op |-> "call", fn |-> "accumulate_ic", ic |-> ic,
                      scalars |-> scalars]
       \/ \E key \in VerifyKeys :
              last = [op |-> "call", fn |-> "validate_verifier_key_blob",
                      key |-> key]
       \/ \E point \in MulPoints, scalar \in ScalarInputs :
              last = [op |-> "call", fn |-> "g1_scalar_mul", point |-> point,
                      scalar |-> scalar]
       \/ \E src_be \in ReadInputs :
              last = [op |-> "call", fn |-> "read_g1_be", src_be |-> src_be]

Verify ==
    /\ last.op = "call"
    /\ last.fn = "verify_groth16"
    /\ LET r == verify_groth16([exists |-> TRUE, verifying_key |-> last.key],
                               last.proof, last.public_inputs)
       IN  last' = [op |-> "verify_groth16", key |-> last.key,
                    proof |-> last.proof,
                    public_inputs |-> last.public_inputs,
                    err |-> r.err, calls |-> r.calls, logs |-> r.logs]
    /\ UNCHANGED <<global_state, verifiers, merkle_tree, nullifier_set,
                   leaves, roots>>

AccumulateIc ==
    /\ last.op = "call"
    /\ last.fn = "accumulate_ic"
    /\ LET r == accumulate_ic(last.ic, last.scalars)
       IN  last' = [op |-> "accumulate_ic", ic |-> last.ic,
                    scalars |-> last.scalars, err |-> r.err, acc |-> r.acc,
                    calls |-> r.calls, logs |-> r.logs]
    /\ UNCHANGED <<global_state, verifiers, merkle_tree, nullifier_set,
                   leaves, roots>>

ValidateVerifierKeyBlob ==
    /\ last.op = "call"
    /\ last.fn = "validate_verifier_key_blob"
    /\ last' = [op |-> "validate_verifier_key_blob", key |-> last.key,
                err |-> validate_verifier_key_blob(last.key)]
    /\ UNCHANGED <<global_state, verifiers, merkle_tree, nullifier_set,
                   leaves, roots>>

ScalarMul ==
    /\ last.op = "call"
    /\ last.fn = "g1_scalar_mul"
    /\ LET r == g1_scalar_mul_bytes(last.point, last.scalar)
       IN  last' = [op |-> "g1_scalar_mul", point |-> last.point,
                    scalar |-> last.scalar, err |-> r.err, result |-> r.point]
    /\ UNCHANGED <<global_state, verifiers, merkle_tree, nullifier_set,
                   leaves, roots>>

ReadG1Be ==
    /\ last.op = "call"
    /\ last.fn = "read_g1_be"
    /\ LET r == read_g1_be_bytes(last.src_be)
       IN  last' = [op |-> "read_g1_be", src_be |-> last.src_be,
                    err |-> r.err, out |-> r.point]
    /\ UNCHANGED <<global_state, verifiers, merkle_tree, nullifier_set,
                   leaves, roots>>

NextVerify ==
    \/ Verify
    \/ AccumulateIc
    \/ ValidateVerifierKeyBlob
    \/ ScalarMul
    \/ ReadG1Be

SpecVerify == InitVerify /\ [][NextVerify]_vars

----------------------------------------------------------------------------
(* The loops of append_leaf, track_nullifier and verify_groth16 one        *)
(* iteration at a time.  The initial state holds one call; last holds the  *)
(* position (pc), the arguments (arg) and the locals (loc) of the call and *)
(* counts the iterations of its loops.  merkle_tree and nullifier_set are  *)
(* the accounts the call works on.                                         *)

\* the tree of a given height after k appends
RECURSIVE Filled(_, _)
Filled(t, k) == IF k = 0 THEN t ELSE Filled(append_leaf(t, <<1>>).tree, k - 1)
LoopTrees ==
    {Filled(initialize(EmptyAccount, height).tree, k) :
        height \in 1..MaxHeight, k \in 0..(2 ^ MaxHeight)}

\* the empty set, and sets one short of the capacity and at the capacity
LoopSets ==
    {<<>>, [i \in 1..(MAX_NULLIFIERS - 1) |-> <<i>>],
     [i \in 1..MAX_NULLIFIERS |-> <<i>>]}

LoopKeys == {EmptyBlob, GoodKey, Key(<<1>>, <<1>>, <<2>>, <<1>>, <<<<1>>, <<2>>, <<0>>>>), Key(<<1>>, <<1>>, <<2>>, <<1>>, <<<<1>>, NoPoint, <<2>>>>)}
LoopProofs == {HonestProof, [HonestProof EXCEPT !.len = PROOF_BYTES - 1]}
LoopScalars == {ZERO_COORDINATE, Small(1), NearMultiple(1, 1), Pattern(255, 255)}
LoopInputs == UNION {[1..n -> LoopScalars] : n \in 0..MaxInputs}

Pending(fn, arg) == [op |-> "loops", fn |-> fn, pc |-> "call", err |-> "Ok", arg |-> arg, loc |-> <<>>, iterations |-> 0]

InitLoops ==
    /\ global_state = NoGlobalState
    /\ verifiers = NoVerifiers
    /\ leaves = <<>>
    /\ roots = <<>>
    /\ \/ /\ merkle_tree \in LoopTrees
          /\ nullifier_set = <<>>
          /\ \E leaf \in Leaves :
                 last = Pending("append_leaf",
                                [tree |-> merkle_tree, leaf |-> leaf])
       \/ /\ merkle_tree = EmptyAccount
          /\ nullifier_set \in LoopSets
          /\ \E nullifier \in TrackInputs(nullifier_set) :
                 last = Pending("track_nullifier",
                                [set |-> nullifier_set,
                                 nullifier |-> nullifier])
       \/ /\ merkle_tree = EmptyAccount
          /\ nullifier_set = <<>>
          /\ \/ \E input_be \in FieldInputs :
                    last = Pending("reduce_mod_order_be", input_be)
             \/ \E key \in LoopKeys, proof \in LoopProofs, inputs \in LoopInputs :
                    last = Pending("verify_groth16",
                                   [key |-> key, proof |-> proof,
                                    public_inputs |-> inputs])

At(fn, pc) == last.op = "loops" /\ last.fn = fn /\ last.pc = pc
Return(err) == [last EXCEPT !.pc = "return", !.err = err]

\* append_leaf: the capacity check and the locals of the loop
AppendEnter ==
    /\ At("append_leaf", "call")
    /\ last' = IF ~tree_has_room(merkle_tree) THEN Return("TreeFull")
               ELSE [last EXCEPT !.pc = "for",
                        !.loc = [level |-> 0, idx |-> merkle_tree.current_index,
                                 current |-> last.arg.leaf,
                                 zero_hashes |-> default_zero_hashes(merkle_tree.height)]]
    /\ UNCHANGED <<global_state, verifiers, merkle_tree, nullifier_set,
                   leaves, roots>>

\* one iteration of for level in 0..height, or the statements after it
AppendIterate ==
    /\ At("append_leaf", "for")
    /\ LET lvl == last.loc.level + 1
           current == last.loc.current
           left == merkle_tree.filled_subtrees[lvl]
       IN  IF last.loc.level < merkle_tree.height
           THEN /\ merkle_tree' =
                       IF last.loc.idx % 2 = 0
                       THEN [merkle_tree EXCEPT !.filled_subtrees[lvl] = current]
                       ELSE merkle_tree
                /\ last' = [last EXCEPT
                              !.loc.current =
                                  IF last.loc.idx % 2 = 0
                                  THEN hash_nodes(current, last.loc.zero_hashes[lvl])
                                  ELSE hash_nodes(left, current),
                              !.loc.idx = last.loc.idx \div 2,
                              !.loc.level = last.loc.level + 1,
                              !.iterations = last.iterations + 1]
           ELSE /\ merkle_tree' =
                       [merkle_tree EXCEPT
                          !.current_index = merkle_tree.current_index + 1,
                          !.cached_roots = push_root(merkle_tree.cached_roots,
                                                     current)]
                /\ last' = Return("Ok")
    /\ UNCHANGED <<global_state, verifiers, nullifier_set, leaves, roots>>

\* track_nullifier: iter().any() looks at one entry, or the capacity check
\* and the push follow the scan
TrackScan ==
    /\ \/ At("track_nullifier", "call")
       \/ At("track_nullifier", "any")
    /\ LET i == last.iterations + 1
       IN  IF i <= Len(nullifier_set)
           THEN /\ last' = IF nullifier_set[i] = last.arg.nullifier
                           THEN [Return("NullifierUsed") EXCEPT !.iterations = i]
                           ELSE [last EXCEPT !.pc = "any", !.iterations = i]
                /\ UNCHANGED nullifier_set
           ELSE IF Len(nullifier_set) >= MAX_NULLIFIERS
           THEN last' = Return("CapacityExceeded") /\ UNCHANGED nullifier_set
           ELSE /\ nullifier_set' = Append(nullifier_set, last.arg.nullifier)
                /\ last' = Return("Ok")
    /\ UNCHANGED <<global_state, verifiers, merkle_tree, leaves, roots>>

\* reduce_mod_order_be: the copy of the input
ReduceEnter ==
    /\ At("reduce_mod_order_be", "call")
    /\ last' = [last EXCEPT !.pc = "while", !.loc = [value |-> last.arg]]
    /\ UNCHANGED <<global_state, verifiers, merkle_tree, nullifier_set,
                   leaves, roots>>

\* one test of the while condition and, when it holds, one subtraction;
\* the subtractions are counted up to one more than MaxMultiple
ReduceIterate ==
    /\ At("reduce_mod_order_be", "while")
    /\ IF cmp_be(last.loc.value, FIELD_MODULUS_BE) # "Less"
       THEN /\ last.iterations <= MaxMultiple
            /\ last' = [last EXCEPT
                          !.loc.value = sub_assign_be(last.loc.value,
                                                      FIELD_MODULUS_BE),
                          !.iterations = last.iterations + 1]
       ELSE last' = Return("Ok")
    /\ UNCHANGED <<global_state, verifiers, merkle_tree, nullifier_set,
                   leaves, roots>>

\* verify_groth16: the checks before the first loop
VerifyEnter ==
    /\ At("verify_groth16", "call")
    /\ LET pre == verify_prechecks([exists |-> TRUE, verifying_key |-> last.arg.key],
                                   last.arg.proof, last.arg.public_inputs)
       IN  last' = IF pre # "Ok" THEN Return(pre)
                   ELSE [last EXCEPT !.pc = "normalize",
                            !.loc = [i |-> 1, scalars |-> <<>>,
                                     value |-> IF last.arg.public_inputs = <<>>
                                               THEN ZERO_COORDINATE
                                               ELSE last.arg.public_inputs[1],
                                     subtractions |-> 0,
                                     acc |-> last.arg.key.ic[1]]]
    /\ UNCHANGED <<global_state, verifiers, merkle_tree, nullifier_set,
                   leaves, roots>>

\* normalize_public_inputs: one step of the reduction of input i, the move
\* to the next input, or the start of accumulate_ic
VerifyNormalize ==
    /\ At("verify_groth16", "normalize")
    /\ LET inputs == last.arg.public_inputs
           i == last.loc.i
       IN  IF i > Len(inputs)
           THEN last' = [last EXCEPT !.pc = "accumulate", !.loc.i = 1]
           ELSE IF cmp_be(last.loc.value, FIELD_MODULUS_BE) # "Less"
           THEN /\ last.loc.subtractions <= MaxMultiple
                /\ last' = [last EXCEPT
                              !.loc.value = sub_assign_be(last.loc.value,
                                                          FIELD_MODULUS_BE),
                              !.loc.subtractions = last.loc.subtractions + 1,
                              !.iterations = last.iterations + 1]
           ELSE last' = [last EXCEPT
                           !.loc.scalars = Append(last.loc.scalars,
                                                  last.loc.value),
                           !.loc.i = i + 1,
                           !.loc.value = IF i + 1 <= Len(inputs)
                                         THEN inputs[i + 1]
                                         ELSE ZERO_COORDINATE,
                           !.loc.subtractions = 0]
    /\ UNCHANGED <<global_state, verifiers, merkle_tree, nullifier_set,
                   leaves, roots>>

\* accumulate_ic: one pair of a scalar and an ic point, or the end of the
\* loop
VerifyAccumulate ==
    /\ At("verify_groth16", "accumulate")
    /\ LET ic == last.arg.key.ic
           scalars == last.loc.scalars
           i == last.loc.i
           mul == g1_scalar_mul(ic[i + 1], scalars[i])
           sum == g1_add(last.loc.acc, mul.point)
       IN  last' =
               IF i > Len(scalars) \/ i + 1 > Len(ic)
               THEN [last EXCEPT !.pc = "pairing"]
               ELSE IF is_zero(scalars[i]) \/ is_zero(ic[i + 1])
               THEN [last EXCEPT !.loc.i = i + 1,
                                 !.iterations = last.iterations + 1]
               ELSE IF mul.err # "Ok" THEN Return(mul.err)
               ELSE IF sum.err # "Ok" THEN Return(sum.err)
               ELSE [last EXCEPT !.loc.i = i + 1, !.loc.acc = sum.point,
                                 !.iterations = last.iterations + 1]
    /\ UNCHANGED <<global_state, verifiers, merkle_tree, nullifier_set,
                   leaves, roots>>

\* the pairing call and the comparison of its result
VerifyPairing ==
    /\ At("verify_groth16", "pairing")
    /\ LET key == load_verifier_key(last.arg.key)
           proof == from_bytes(last.arg.proof)
           input == pairing_terms(key, proof, last.loc.acc)
       IN  last' = Return(pairing_check(alt_bn128_pairing(input)))
    /\ UNCHANGED <<global_state, verifiers, merkle_tree, nullifier_set,
                   leaves, roots>>

NextLoops ==
    \/ AppendEnter
    \/ AppendIterate
    \/ TrackScan
    \/ ReduceEnter
    \/ ReduceIterate
    \/ VerifyEnter
    \/ VerifyNormalize
    \/ VerifyAccumulate
    \/ VerifyPairing

SpecLoops == InitLoops /\ [][NextLoops]_vars

----------------------------------------------------------------------------
(* The bytes of a verifying key.  PackedVerifierKey derives the Borsh       *)
(* encoding: a fixed array is its bytes, a Vec is its length as four       *)
(* little-endian bytes followed by its elements, and try_from_slice        *)
(* refuses a slice that ends early or has bytes left over.                 *)

u32_le_bytes(n) ==
    <<n % 256, (n \div 256) % 256, (n \div 65536) % 256,
      (n \div 16777216) % 256>>

u32_from_le_bytes(b) == b[1] + 256 * b[2] + 65536 * b[3] + 16777216 * b[4]

RECURSIVE Flatten(_)
Flatten(points) ==
    IF points = <<>> THEN <<>> ELSE Head(points) \o Flatten(Tail(points))

\* AnchorSerialize for PackedVerifierKey
try_to_vec(key) ==
    key.alpha_g1 \o key.beta_g2 \o key.gamma_g2 \o key.delta_g2
        \o u32_le_bytes(Len(key.ic)) \o Flatten(key.ic)

FIXED_KEY_BYTES == G1_BYTES + 3 * G2_BYTES

\* a variant that reads the ic points last to first
try_from_slice_reversed(bytes) ==
    IF Len(bytes) < FIXED_KEY_BYTES + LEN_PREFIX_BYTES
    THEN [err |-> "Err", alpha_g1 |-> <<>>, beta_g2 |-> <<>>,
          gamma_g2 |-> <<>>, delta_g2 |-> <<>>, ic |-> <<>>]
    ELSE LET n == u32_from_le_bytes(SubSeq(bytes, FIXED_KEY_BYTES + 1,
                                           FIXED_KEY_BYTES + LEN_PREFIX_BYTES))
             at == FIXED_KEY_BYTES + LEN_PREFIX_BYTES
         IN  IF Len(bytes) # at + G1_BYTES * n
             THEN [err |-> "Err", alpha_g1 |-> <<>>, beta_g2 |-> <<>>,
                   gamma_g2 |-> <<>>, delta_g2 |-> <<>>, ic |-> <<>>]
             ELSE [err |-> "Ok",
                   alpha_g1 |-> SubSeq(bytes, 1, G1_BYTES),
                   beta_g2 |-> SubSeq(bytes, G1_BYTES + 1, G1_BYTES + G2_BYTES),
                   gamma_g2 |-> SubSeq(bytes, G1_BYTES + G2_BYTES + 1,
                                       G1_BYTES + 2 * G2_BYTES),
                   delta_g2 |-> SubSeq(bytes, G1_BYTES + 2 * G2_BYTES + 1,
                                       FIXED_KEY_BYTES),
                   ic |-> [i \in 1..n |->
                              SubSeq(bytes, at + G1_BYTES * (n - i) + 1,
                                     at + G1_BYTES * (n - i + 1))]]

\* AnchorDeserialize for PackedVerifierKey: the four points, the length
\* prefix n, n ic points, and nothing after them
try_from_slice(bytes) ==
    IF Len(bytes) < FIXED_KEY_BYTES + LEN_PREFIX_BYTES
    THEN [err |-> "Err", alpha_g1 |-> <<>>, beta_g2 |-> <<>>,
          gamma_g2 |-> <<>>, delta_g2 |-> <<>>, ic |-> <<>>]
    ELSE LET n == u32_from_le_bytes(SubSeq(bytes, FIXED_KEY_BYTES + 1,
                                           FIXED_KEY_BYTES + LEN_PREFIX_BYTES))
             at == FIXED_KEY_BYTES + LEN_PREFIX_BYTES
         IN  IF Len(bytes) # at + G1_BYTES * n
             THEN [err |-> "Err", alpha_g1 |-> <<>>, beta_g2 |-> <<>>,
                   gamma_g2 |-> <<>>, delta_g2 |-> <<>>, ic |-> <<>>]
             ELSE [err |-> "Ok",
                   alpha_g1 |-> SubSeq(bytes, 1, G1_BYTES),
                   beta_g2 |-> SubSeq(bytes, G1_BYTES + 1, G1_BYTES + G2_BYTES),
                   gamma_g2 |-> SubSeq(bytes, G1_BYTES + G2_BYTES + 1,
                                       G1_BYTES + 2 * G2_BYTES),
                   delta_g2 |-> SubSeq(bytes, G1_BYTES + 2 * G2_BYTES + 1,
                                       FIXED_KEY_BYTES),
                   ic |-> [i \in 1..n |->
                              SubSeq(bytes, at + G1_BYTES * (i - 1) + 1,
                                     at + G1_BYTES * i)]]

\* load_verifier_key on the bytes themselves
load_verifier_key_bytes(bytes) ==
    LET key == try_from_slice(bytes)
    IN  IF key.err # "Ok" THEN [key EXCEPT !.err = "InvalidVerifierKey"]
        ELSE key

\* n bytes that differ from their neighbours and from the bytes of
\* another seed
PointBytes(seed, n) == [i \in 1..n |-> (seed + 3 * i) % 256]

CodecPoints == {PointBytes(1, G1_BYTES), PointBytes(200, G1_BYTES)}
CodecIcLists == UNION {[1..n -> CodecPoints] : n \in 0..MaxIc}
CodecKeys ==
    {[alpha_g1 |-> a, beta_g2 |-> PointBytes(7, G2_BYTES),
      gamma_g2 |-> PointBytes(90, G2_BYTES),
      delta_g2 |-> PointBytes(251, G2_BYTES), ic |-> ic] :
        a \in CodecPoints, ic \in CodecIcLists}

\* what becomes of the encoded bytes before they are decoded: nothing, the
\* last byte lost, a byte added, or the length prefix raised by one
Damage == {"none", "short", "long", "prefix"}
Damaged(bytes, how) ==
    IF how = "short" THEN SubSeq(bytes, 1, Len(bytes) - 1)
    ELSE IF how = "long" THEN Append(bytes, 0)
    ELSE IF how = "prefix"
    THEN [bytes EXCEPT ![FIXED_KEY_BYTES + 1] = (@ + 1) % 256]
    ELSE bytes

InitCodec ==
    /\ global_state = NoGlobalState
    /\ verifiers = NoVerifiers
    /\ merkle_tree = EmptyAccount
    /\ nullifier_set = <<>>
    /\ leaves = <<>>
    /\ roots = <<>>
    /\ \E key \in CodecKeys : last = [op |-> "call", key |-> key]

Encode ==
    /\ last.op = "call"
    /\ last' = [op |-> "encode", key |-> last.key,
                bytes |-> try_to_vec(last.key)]
    /\ UNCHANGED <<global_state, verifiers, merkle_tree, nullifier_set,
                   leaves, roots>>

Decode(how) ==
    /\ last.op = "encode"
    /\ LET bytes == Damaged(last.bytes, how)
       IN  last' = [op |-> "decode", key |-> last.key, how |-> how,
                    bytes |-> bytes, decoded |-> load_verifier_key_bytes(bytes)]
    /\ UNCHANGED <<global_state, verifiers, merkle_tree, nullifier_set,
                   leaves, roots>>

NextCodec ==
    \/ Encode
    \/ \E how \in Damage : Decode(how)

SpecCodec == InitCodec /\ [][NextCodec]_vars

----------------------------------------------------------------------------
(* lib.rs: the instruction handlers.  A handler works on the accounts it   *)
(* is given and returns Ok or an error; the runtime keeps the accounts of  *)
(* an instruction that returned Ok and discards those of one that failed.  *)
(* A handler result carries the error, the stage that returned it, the     *)
(* effects the handler had carried out by then (fx), and the accounts as   *)
(* the handler left them.                                                  *)

BPS_DENOMINATOR == 10000

Stop(err, stage, fx) ==
    [err |-> err, stage |-> stage, fx |-> fx,
     tree |-> merkle_tree, set |-> nullifier_set,
     leaves |-> leaves, roots |-> roots]

\* a failure after the handler has written to its accounts
StopAt(err, stage, fx, tree, set, ls, rs) ==
    [err |-> err, stage |-> stage, fx |-> fx,
     tree |-> tree, set |-> set, leaves |-> ls, roots |-> rs]

Done(fx, tree, set, ls, rs) ==
    [err |-> "Ok", stage |-> "done", fx |-> fx,
     tree |-> tree, set |-> set, leaves |-> ls, roots |-> rs]

\* the token or system program carries out `accepted` of the `wanted`
\* transfers of an instruction
Transfers(n) == [i \in 1..n |-> "transfer"]

\* amount.saturating_mul(fee_bps) / BPS_DENOMINATOR; the product of an
\* amount up to MaxAmount and a fee up to BPS_DENOMINATOR does not saturate
deposit_fee(amount, fee_bps) == (amount * fee_bps) \div BPS_DENOMINATOR

\* events.rs: the event a deposit emits
CommitmentInserted(commitment, nullifier, new_root, is_priority) ==
    [commitment |-> commitment, nullifier |-> nullifier,
     new_root |-> new_root, is_priority |-> is_priority]

\* a handler result together with the event the handler emitted
Emitting(r, event) == r @@ [event |-> event]

\* a variant that records the nullifier it is given
transparent_deposit_recording(commitment, nullifier, amount, proof, public_inputs, priority_lane, accepted) ==
    IF ~(global_state.exists /\ verifiers["verifier"].exists)
    THEN Stop("AccountNotInitialized", "accounts", <<>>)
    ELSE IF ~(amount > 0) THEN Stop("InvalidAmount", "amount", <<>>)
    ELSE LET v == verify_groth16_of(verifiers["verifier"], proof, public_inputs)
             fee_bps == IF priority_lane THEN global_state.priority_fee_bps
                        ELSE global_state.shield_fee_bps
             fee_amount == deposit_fee(amount, fee_bps)
             wanted == IF fee_amount > 0 THEN 2 ELSE 1
             a == append_leaf(merkle_tree, commitment)
         IN  IF v # "Ok" THEN Stop(v, "verify", <<>>)
             ELSE IF accepted < wanted
                  THEN Stop("TransferFailed", "transfer", Transfers(accepted))
             ELSE IF a.err # "Ok" THEN Stop(a.err, "append", Transfers(wanted))
             ELSE Emitting(Done(Transfers(wanted) \o <<"append", "emit">>,
                                a.tree, Append(nullifier_set, nullifier),
                                Append(leaves, commitment),
                                Append(roots, a.root)),
                           CommitmentInserted(commitment, nullifier, a.root,
                                              priority_lane))

transparent_deposit(commitment, nullifier, amount, proof, public_inputs, priority_lane, accepted) ==
    IF ~(global_state.exists /\ verifiers["verifier"].exists)
    THEN Stop("AccountNotInitialized", "accounts", <<>>)
    ELSE IF ~(amount > 0) THEN Stop("InvalidAmount", "amount", <<>>)
    ELSE LET v == verify_groth16_of(verifiers["verifier"], proof, public_inputs)
             fee_bps == IF priority_lane THEN global_state.priority_fee_bps
                        ELSE global_state.shield_fee_bps
             fee_amount == deposit_fee(amount, fee_bps)
             wanted == IF fee_amount > 0 THEN 2 ELSE 1
             a == append_leaf(merkle_tree, commitment)
         IN  IF v # "Ok" THEN Stop(v, "verify", <<>>)
             ELSE IF accepted < wanted
                  THEN Stop("TransferFailed", "transfer", Transfers(accepted))
             ELSE IF a.err # "Ok" THEN Stop(a.err, "append", Transfers(wanted))
             ELSE Emitting(Done(Transfers(wanted) \o <<"append", "emit">>,
                                a.tree, nullifier_set,
                                Append(leaves, commitment),
                                Append(roots, a.root)),
                           CommitmentInserted(commitment, nullifier, a.root,
                                              priority_lane))

RECURSIVE track_each(_, _, _)
track_each(set, nullifiers, fx) ==
    IF nullifiers = <<>> THEN [err |-> "Ok", set |-> set, fx |-> fx]
    ELSE LET r == track_nullifier(set, Head(nullifiers))
         IN  IF r.err # "Ok" THEN [err |-> r.err, set |-> set, fx |-> fx]
             ELSE track_each(r.set, Tail(nullifiers),
                             fx \o <<"track", "emit">>)

RECURSIVE append_each(_, _, _, _, _)
append_each(tree, commitments, ls, rs, fx) ==
    IF commitments = <<>>
    THEN [err |-> "Ok", tree |-> tree, leaves |-> ls, roots |-> rs, fx |-> fx]
    ELSE LET a == append_leaf(tree, Head(commitments))
         IN  IF a.err # "Ok"
             THEN [err |-> a.err, tree |-> tree, leaves |-> ls, roots |-> rs,
                   fx |-> fx]
             ELSE append_each(a.tree, Tail(commitments),
                              Append(ls, Head(commitments)),
                              Append(rs, a.root), Append(fx, "append"))

\* a variant that appends the commitments before it records the nullifiers
shielded_transfer_append_first(input_nullifiers, output_commitments, proof, public_inputs) ==
    IF ~(global_state.exists /\ verifiers["transfer_verifier"].exists)
    THEN Stop("AccountNotInitialized", "accounts", <<>>)
    ELSE IF input_nullifiers = <<>> THEN Stop("InvalidAmount", "amount", <<>>)
    ELSE IF output_commitments = <<>> THEN Stop("InvalidAmount", "amount", <<>>)
    ELSE LET v == verify_groth16_of(verifiers["transfer_verifier"], proof,
                                 public_inputs)
             a == append_each(merkle_tree, output_commitments, leaves, roots,
                              <<>>)
             t == track_each(nullifier_set, input_nullifiers, a.fx)
         IN  IF v # "Ok" THEN Stop(v, "verify", <<>>)
             ELSE IF a.err # "Ok"
                  THEN StopAt(a.err, "append", a.fx, a.tree, nullifier_set,
                              a.leaves, a.roots)
             ELSE IF t.err # "Ok"
                  THEN StopAt(t.err, "track", t.fx, a.tree, t.set,
                              a.leaves, a.roots)
             ELSE Done(t.fx, a.tree, t.set, a.leaves, a.roots)

shielded_transfer(input_nullifiers, output_commitments, proof, public_inputs) ==
    IF ~(global_state.exists /\ verifiers["transfer_verifier"].exists)
    THEN Stop("AccountNotInitialized", "accounts", <<>>)
    ELSE IF input_nullifiers = <<>> THEN Stop("InvalidAmount", "amount", <<>>)
    ELSE IF output_commitments = <<>> THEN Stop("InvalidAmount", "amount", <<>>)
    ELSE LET v == verify_groth16_of(verifiers["transfer_verifier"], proof,
                                 public_inputs)
             t == track_each(nullifier_set, input_nullifiers, <<>>)
             a == append_each(merkle_tree, output_commitments, leaves, roots,
                              t.fx)
         IN  IF v # "Ok" THEN Stop(v, "verify", <<>>)
             ELSE IF t.err # "Ok"
                  THEN StopAt(t.err, "track", t.fx, merkle_tree, t.set,
                              leaves, roots)
             ELSE IF a.err # "Ok"
                  THEN StopAt(a.err, "append", a.fx, a.tree, t.set,
                              a.leaves, a.roots)
             ELSE Done(a.fx, a.tree, t.set, a.leaves, a.roots)

\* a variant that pays out before it records the nullifier
transparent_withdraw_transfer_first(amount, proof, public_inputs, nullifier, accepted) ==
    IF ~(global_state.exists /\ verifiers["withdraw_verifier"].exists)
    THEN Stop("AccountNotInitialized", "accounts", <<>>)
    ELSE IF ~(amount > 0) THEN Stop("InvalidAmount", "amount", <<>>)
    ELSE LET v == verify_groth16_of(verifiers["withdraw_verifier"], proof,
                                 public_inputs)
             t == track_nullifier(nullifier_set, nullifier)
         IN  IF v # "Ok" THEN Stop(v, "verify", <<>>)
             ELSE IF accepted < 1 THEN Stop("TransferFailed", "transfer", <<>>)
             ELSE IF t.err # "Ok" THEN Stop(t.err, "track", <<"transfer">>)
             ELSE Done(<<"transfer", "track", "emit">>, merkle_tree, t.set,
                       leaves, roots)

\* a variant that records the nullifier before it looks at the proof
transparent_withdraw_track_first(amount, proof, public_inputs, nullifier, accepted) ==
    IF ~(global_state.exists /\ verifiers["withdraw_verifier"].exists)
    THEN Stop("AccountNotInitialized", "accounts", <<>>)
    ELSE IF ~(amount > 0) THEN Stop("InvalidAmount", "amount", <<>>)
    ELSE LET v == verify_groth16_of(verifiers["withdraw_verifier"], proof,
                                 public_inputs)
             t == track_nullifier(nullifier_set, nullifier)
         IN  IF t.err # "Ok" THEN Stop(t.err, "track", <<>>)
             ELSE IF v # "Ok" THEN Stop(v, "verify", <<"track">>)
             ELSE IF accepted < 1
                  THEN StopAt("TransferFailed", "transfer", <<"track">>,
                              merkle_tree, t.set, leaves, roots)
             ELSE Done(<<"track", "transfer", "emit">>, merkle_tree, t.set,
                       leaves, roots)

transparent_withdraw(amount, proof, public_inputs, nullifier, accepted) ==
    IF ~(global_state.exists /\ verifiers["withdraw_verifier"].exists)
    THEN Stop("AccountNotInitialized", "accounts", <<>>)
    ELSE IF ~(amount > 0) THEN Stop("InvalidAmount", "amount", <<>>)
    ELSE LET v == verify_groth16_of(verifiers["withdraw_verifier"], proof,
                                 public_inputs)
             t == track_nullifier(nullifier_set, nullifier)
         IN  IF v # "Ok" THEN Stop(v, "verify", <<>>)
             ELSE IF t.err # "Ok" THEN Stop(t.err, "track", <<>>)
             ELSE IF accepted < 1
                  THEN StopAt("TransferFailed", "transfer", <<"track">>,
                              merkle_tree, t.set, leaves, roots)
             ELSE Done(<<"track", "transfer", "emit">>, merkle_tree, t.set,
                       leaves, roots)

transparent_withdraw_sol(amount, proof, public_inputs, nullifier, accepted) ==
    IF ~(global_state.exists /\ verifiers["withdraw_verifier"].exists)
    THEN Stop("AccountNotInitialized", "accounts", <<>>)
    ELSE LET v == verify_groth16_of(verifiers["withdraw_verifier"], proof,
                                 public_inputs)
             t == track_nullifier(nullifier_set, nullifier)
         IN  IF v # "Ok" THEN Stop(v, "verify", <<>>)
             ELSE IF t.err # "Ok" THEN Stop(t.err, "track", <<>>)
             ELSE IF accepted < 1
                  THEN StopAt("TransferFailed", "transfer", <<"track">>,
                              merkle_tree, t.set, leaves, roots)
             ELSE Done(<<"track", "transfer", "emit">>, merkle_tree, t.set,
                       leaves, roots)

partial_withdraw(withdraw_amount, change_commitment, proof, public_inputs, nullifier, accepted) ==
    IF ~(global_state.exists /\ verifiers["partial_withdraw_verifier"].exists)
    THEN Stop("AccountNotInitialized", "accounts", <<>>)
    ELSE IF ~(withdraw_amount > 0) THEN Stop("InvalidAmount", "amount", <<>>)
    ELSE LET v == verify_groth16_of(verifiers["partial_withdraw_verifier"], proof,
                                 public_inputs)
             t == track_nullifier(nullifier_set, nullifier)
             a == append_leaf(merkle_tree, change_commitment)
         IN  IF v # "Ok" THEN Stop(v, "verify", <<>>)
             ELSE IF t.err # "Ok" THEN Stop(t.err, "track", <<>>)
             ELSE IF accepted < 1
                  THEN StopAt("TransferFailed", "transfer", <<"track">>,
                              merkle_tree, t.set, leaves, roots)
             ELSE IF a.err # "Ok"
                  THEN StopAt(a.err, "append", <<"track", "transfer">>,
                              merkle_tree, t.set, leaves, roots)
             ELSE Done(<<"track", "transfer", "append", "emit">>, a.tree,
                       t.set, Append(leaves, change_commitment),
                       Append(roots, a.root))

----------------------------------------------------------------------------
(* The program: one action per instruction *)

Signers == {"admin", "other"}
Deployer == "admin"
Collectors == {"collector"}
FeeBps == {0, BPS_DENOMINATOR}
Amounts == 0..MaxAmount
ProgHeights == (0..MaxProgHeight) \cup {MAX_TREE_HEIGHT + 1}

ProgTags == {<<1>>, <<MAX_NULLIFIERS + 1>>}
ProgLeaves == {<<1>>}
ListsUpTo2(S) == {<<>>} \cup {<<x>> : x \in S} \cup {<<x, y>> : x, y \in S}

FullSet == [i \in 1..MAX_NULLIFIERS |-> <<i>>]

\* last.verify is what verify_groth16 returns on the verifier account and
\* the proof of the call, "none" for an instruction that takes no proof or
\* whose verifier account does not exist
NoInstruction ==
    [op |-> "none", err |-> "Ok", stage |-> "done", fx |-> <<>>,
     verify |-> "none"]

\* Before initialize, or a deployment that has been running for a while:
\* every key installed and MAX_NULLIFIERS notes spent.
Init ==
    /\ leaves = <<>>
    /\ roots = <<>>
    /\ last = NoInstruction
    /\ \/ /\ global_state = NoGlobalState
          /\ verifiers = NoVerifiers
          /\ merkle_tree = EmptyAccount
          /\ nullifier_set = <<>>
       \/ /\ global_state = [exists |-> TRUE, admin |-> Deployer,
                             fee_collector |-> "collector",
                             shield_fee_bps |-> 0, priority_fee_bps |-> 0]
          /\ verifiers = [v \in VerifierNames |->
                             [exists |-> TRUE, verifying_key |-> GoodKey]]
          /\ merkle_tree = initialize(EmptyAccount, 1).tree
          /\ nullifier_set = FullSet

Called(op, err, stage, fx, verify) ==
    last' = [op |-> op, err |-> err, stage |-> stage, fx |-> fx,
             verify |-> verify]

Failed(op, err, stage) ==
    /\ Called(op, err, stage, <<>>, "none")
    /\ UNCHANGED <<global_state, verifiers, merkle_tree, nullifier_set,
                   leaves, roots>>

\* the record of an administrative instruction: who signed it
CalledAs(op, signer, err, stage) ==
    last' = [op |-> op, err |-> err, stage |-> stage, fx |-> <<>>,
             verify |-> "none", signer |-> signer]

Refused(op, signer, err, stage) ==
    /\ CalledAs(op, signer, err, stage)
    /\ UNCHANGED <<global_state, verifiers, merkle_tree, nullifier_set,
                   leaves, roots>>

\* the record of initialize: who signed it, the height and the fees
\* <<shield_fee_bps, priority_fee_bps>> it asked for
CalledInitialize(signer, tree_height, fees, err, stage) ==
    last' = [op |-> "initialize", err |-> err, stage |-> stage, fx |-> <<>>,
             verify |-> "none", signer |-> signer,
             tree_height |-> tree_height, fees |-> fees]

\* the record of a set_fee that went through, with the fees it asked for
CalledSetFee(signer, fees) ==
    last' = [op |-> "set_fee", err |-> "Ok", stage |-> "done", fx |-> <<>>,
             verify |-> "none", signer |-> signer, fees |-> fees]

\* a variant that keeps the first of the two
KeepFirst(a, b) == a

Max(a, b) == IF a >= b THEN a ELSE b

\* a variant of initialize without the upper limit on the height
InitializeAnyHeight(signer, tree_height, fee_collector, shield_fee_bps, priority_fee_bps) ==
    LET m == initialize(EmptyAccount, tree_height)
        refused(err, stage) ==
            /\ CalledInitialize(signer, tree_height,
                                <<shield_fee_bps, priority_fee_bps>>, err, stage)
            /\ UNCHANGED <<global_state, verifiers, merkle_tree,
                           nullifier_set, leaves, roots>>
    IN  IF global_state.exists THEN refused("AccountInUse", "accounts")
        ELSE IF m.err # "Ok" THEN refused(m.err, "tree")
        ELSE /\ global_state' =
                    [exists |-> TRUE, admin |-> signer,
                     fee_collector |-> fee_collector,
                     shield_fee_bps |-> shield_fee_bps,
                     priority_fee_bps |-> Max(priority_fee_bps, shield_fee_bps)]
             /\ merkle_tree' = m.tree
             /\ nullifier_set' = <<>>
             /\ verifiers' = [verifiers EXCEPT !["verifier"] =
                                 [exists |-> TRUE, verifying_key |-> EmptyBlob]]
             /\ leaves' = <<>>
             /\ roots' = <<>>
             /\ CalledInitialize(signer, tree_height,
                                 <<shield_fee_bps, priority_fee_bps>>,
                                 "Ok", "done")

Initialize(signer, tree_height, fee_collector, shield_fee_bps, priority_fee_bps) ==
    LET m == initialize(EmptyAccount, tree_height)
        refused(err, stage) ==
            /\ CalledInitialize(signer, tree_height,
                                <<shield_fee_bps, priority_fee_bps>>, err, stage)
            /\ UNCHANGED <<global_state, verifiers, merkle_tree,
                           nullifier_set, leaves, roots>>
    IN  IF global_state.exists THEN refused("AccountInUse", "accounts")
        ELSE IF ~(tree_height <= MAX_TREE_HEIGHT)
        THEN refused("CapacityExceeded", "height")
        ELSE IF m.err # "Ok" THEN refused(m.err, "tree")
        ELSE /\ global_state' =
                    [exists |-> TRUE, admin |-> signer,
                     fee_collector |-> fee_collector,
                     shield_fee_bps |-> shield_fee_bps,
                     priority_fee_bps |-> Max(priority_fee_bps, shield_fee_bps)]
             /\ merkle_tree' = m.tree
             /\ nullifier_set' = <<>>
             /\ verifiers' = [verifiers EXCEPT !["verifier"] =
                                 [exists |-> TRUE, verifying_key |-> EmptyBlob]]
             /\ leaves' = <<>>
             /\ roots' = <<>>
             /\ CalledInitialize(signer, tree_height,
                                 <<shield_fee_bps, priority_fee_bps>>,
                                 "Ok", "done")

\* a variant that installs the blob without validating it
set_verifier_key_unchecked(op, name, has_one, signer, verifying_key) ==
    IF ~global_state.exists THEN Refused(op, signer, "AccountNotInitialized", "accounts")
    ELSE IF has_one /\ signer # global_state.admin
    THEN Refused(op, signer, "ConstraintHasOne", "accounts")
    ELSE IF signer # global_state.admin THEN Refused(op, signer, "Unauthorized", "admin")
    ELSE /\ verifiers' = [verifiers EXCEPT ![name] =
                             [exists |-> TRUE, verifying_key |-> verifying_key]]
         /\ CalledAs(op, signer, "Ok", "done")
         /\ UNCHANGED <<global_state, merkle_tree, nullifier_set, leaves, roots>>

\* set_verifier and its three siblings; has_one is the account constraint
\* that only SetVerifier declares
set_verifier_key(op, name, has_one, signer, verifying_key) ==
    IF ~global_state.exists THEN Refused(op, signer, "AccountNotInitialized", "accounts")
    ELSE IF has_one /\ signer # global_state.admin
    THEN Refused(op, signer, "ConstraintHasOne", "accounts")
    ELSE IF signer # global_state.admin THEN Refused(op, signer, "Unauthorized", "admin")
    ELSE IF validate_verifier_key_blob(verifying_key) # "Ok"
    THEN Refused(op, signer, validate_verifier_key_blob(verifying_key), "key")
    ELSE /\ verifiers' = [verifiers EXCEPT ![name] =
                             [exists |-> TRUE, verifying_key |-> verifying_key]]
         /\ CalledAs(op, signer, "Ok", "done")
         /\ UNCHANGED <<global_state, merkle_tree, nullifier_set, leaves, roots>>

SetVerifier(signer, verifying_key) ==
    set_verifier_key("set_verifier", "verifier", TRUE, signer, verifying_key)

SetWithdrawVerifier(signer, verifying_key) ==
    set_verifier_key("set_withdraw_verifier", "withdraw_verifier", FALSE,
                     signer, verifying_key)

SetTransferVerifier(signer, verifying_key) ==
    set_verifier_key("set_transfer_verifier", "transfer_verifier", FALSE,
                     signer, verifying_key)

SetPartialWithdrawVerifier(signer, verifying_key) ==
    set_verifier_key("set_partial_withdraw_verifier",
                     "partial_withdraw_verifier", FALSE, signer, verifying_key)

\* a variant without the has_one constraint on global_state
SetFeeAnySigner(signer, shield_fee_bps, priority_fee_bps) ==
    IF ~global_state.exists
    THEN Refused("set_fee", signer, "AccountNotInitialized", "accounts")
    ELSE /\ global_state' =
                [global_state EXCEPT
                    !.shield_fee_bps = shield_fee_bps,
                    !.priority_fee_bps = Max(priority_fee_bps, shield_fee_bps)]
         /\ CalledSetFee(signer, <<shield_fee_bps, priority_fee_bps>>)
         /\ UNCHANGED <<verifiers, merkle_tree, nullifier_set, leaves, roots>>

SetFee(signer, shield_fee_bps, priority_fee_bps) ==
    IF ~global_state.exists
    THEN Refused("set_fee", signer, "AccountNotInitialized", "accounts")
    ELSE IF signer # global_state.admin
    THEN Refused("set_fee", signer, "ConstraintHasOne", "accounts")
    ELSE /\ global_state' =
                [global_state EXCEPT
                    !.shield_fee_bps = shield_fee_bps,
                    !.priority_fee_bps = Max(priority_fee_bps, shield_fee_bps)]
         /\ CalledSetFee(signer, <<shield_fee_bps, priority_fee_bps>>)
         /\ UNCHANGED <<verifiers, merkle_tree, nullifier_set, leaves, roots>>

SetFeeCollector(signer, new_fee_collector) ==
    IF ~global_state.exists
    THEN Refused("set_fee_collector", signer, "AccountNotInitialized", "accounts")
    ELSE IF signer # global_state.admin
    THEN Refused("set_fee_collector", signer, "ConstraintHasOne", "accounts")
    ELSE /\ global_state' =
                [global_state EXCEPT !.fee_collector = new_fee_collector]
         /\ CalledAs("set_fee_collector", signer, "Ok", "done")
         /\ UNCHANGED <<verifiers, merkle_tree, nullifier_set, leaves, roots>>

\* the record of a reset: who signed and how many tags the set held
CalledBy(op, signer, err, stage) ==
    last' = [op |-> op, err |-> err, stage |-> stage, fx |-> <<>>,
             verify |-> "none", signer |-> signer,
             cleared |-> Len(nullifier_set)]

ResetNullifiers(signer) ==
    IF ~global_state.exists
    THEN /\ CalledBy("reset_nullifiers", signer, "AccountNotInitialized",
                     "accounts")
         /\ UNCHANGED <<global_state, verifiers, merkle_tree, nullifier_set,
                        leaves, roots>>
    ELSE IF signer # global_state.admin
    THEN /\ CalledBy("reset_nullifiers", signer, "ConstraintHasOne",
                     "accounts")
         /\ UNCHANGED <<global_state, verifiers, merkle_tree, nullifier_set,
                        leaves, roots>>
    ELSE /\ nullifier_set' = <<>>
         /\ CalledBy("reset_nullifiers", signer, "Ok", "done")
         /\ UNCHANGED <<global_state, verifiers, merkle_tree, leaves, roots>>

\* a variant that lets only the admin through
EmergencyResetAdminOnly(signer) ==
    IF ~global_state.exists \/ signer # global_state.admin
    THEN /\ CalledBy("emergency_reset_nullifiers", signer,
                     "AccountNotInitialized", "accounts")
         /\ UNCHANGED <<global_state, verifiers, merkle_tree, nullifier_set,
                        leaves, roots>>
    ELSE /\ nullifier_set' = <<>>
         /\ CalledBy("emergency_reset_nullifiers", signer, "Ok", "done")
         /\ UNCHANGED <<global_state, verifiers, merkle_tree, leaves, roots>>

EmergencyResetNullifiers(signer) ==
    IF ~global_state.exists
    THEN /\ CalledBy("emergency_reset_nullifiers", signer,
                     "AccountNotInitialized", "accounts")
         /\ UNCHANGED <<global_state, verifiers, merkle_tree, nullifier_set,
                        leaves, roots>>
    ELSE /\ nullifier_set' = <<>>
         /\ CalledBy("emergency_reset_nullifiers", signer, "Ok", "done")
         /\ UNCHANGED <<global_state, verifiers, merkle_tree, leaves, roots>>

TestScalarMul(input_ok) ==
    IF input_ok
    THEN /\ Called("test_scalar_mul", "Ok", "done", <<>>, "none")
         /\ UNCHANGED <<global_state, verifiers, merkle_tree, nullifier_set,
                        leaves, roots>>
    ELSE Failed("test_scalar_mul", "InvalidProof", "syscall")

\* a variant that keeps what a failed handler had written
CommitAlways(r) ==
    /\ merkle_tree' = r.tree
    /\ nullifier_set' = r.set
    /\ leaves' = r.leaves
    /\ roots' = r.roots
    /\ UNCHANGED <<global_state, verifiers>>

\* a variant that loses the write to the nullifier set
CommitWithoutSet(r) ==
    /\ merkle_tree' = IF r.err = "Ok" THEN r.tree ELSE merkle_tree
    /\ nullifier_set' = nullifier_set
    /\ leaves' = IF r.err = "Ok" THEN r.leaves ELSE leaves
    /\ roots' = IF r.err = "Ok" THEN r.roots ELSE roots
    /\ UNCHANGED <<global_state, verifiers>>

\* the runtime keeps what a successful handler did and drops the rest
Commit(r) ==
    /\ merkle_tree' = IF r.err = "Ok" THEN r.tree ELSE merkle_tree
    /\ nullifier_set' = IF r.err = "Ok" THEN r.set ELSE nullifier_set
    /\ leaves' = IF r.err = "Ok" THEN r.leaves ELSE leaves
    /\ roots' = IF r.err = "Ok" THEN r.roots ELSE roots
    /\ UNCHANGED <<global_state, verifiers>>

Run(op, name, proof, public_inputs, r) ==
    /\ Called(op, r.err, r.stage, r.fx,
              IF verifiers[name].exists
              THEN verify_groth16_of(verifiers[name], proof, public_inputs)
              ELSE "none")
    /\ Commit(r)

\* the record of a deposit carries its commitment and nullifier arguments
\* and the events it emitted
Deposited(commitment, nullifier, proof, public_inputs, r) ==
    /\ last' = [op |-> "transparent_deposit", err |-> r.err,
                stage |-> r.stage, fx |-> r.fx,
                verify |-> IF verifiers["verifier"].exists
                           THEN verify_groth16_of(verifiers["verifier"],
                                                  proof, public_inputs)
                           ELSE "none",
                commitment |-> commitment, nullifier |-> nullifier,
                events |-> IF r.err = "Ok" THEN <<r.event>> ELSE <<>>]
    /\ Commit(r)

TransparentDeposit(commitment, nullifier, amount, proof, public_inputs, priority_lane, accepted) ==
    Deposited(commitment, nullifier, proof, public_inputs,
              transparent_deposit(commitment, nullifier, amount, proof,
                                  public_inputs, priority_lane, accepted))

ShieldedTransfer(input_nullifiers, output_commitments, proof, public_inputs) ==
    Run("shielded_transfer", "transfer_verifier", proof, public_inputs,
        shielded_transfer(input_nullifiers, output_commitments, proof,
                          public_inputs))

TransparentWithdraw(amount, proof, public_inputs, nullifier, accepted) ==
    Run("transparent_withdraw", "withdraw_verifier", proof, public_inputs,
        transparent_withdraw(amount, proof, public_inputs, nullifier, accepted))

TransparentWithdrawSol(amount, proof, public_inputs, nullifier, accepted) ==
    Run("transparent_withdraw_sol", "withdraw_verifier", proof, public_inputs,
        transparent_withdraw_sol(amount, proof, public_inputs, nullifier,
                                 accepted))

PartialWithdraw(withdraw_amount, change_commitment, proof, public_inputs, nullifier, accepted) ==
    Run("partial_withdraw", "partial_withdraw_verifier", proof, public_inputs,
        partial_withdraw(withdraw_amount, change_commitment, proof,
                         public_inputs, nullifier, accepted))

Next ==
    \/ \E h \in ProgHeights, c \in Collectors, f, g \in FeeBps :
          Initialize(Deployer, h, c, f, g)
    \/ \E s \in Signers, k \in VerifierBlobs : SetVerifier(s, k)
    \/ \E s \in Signers, k \in VerifierBlobs : SetWithdrawVerifier(s, k)
    \/ \E s \in Signers, k \in VerifierBlobs : SetTransferVerifier(s, k)
    \/ \E s \in Signers, k \in VerifierBlobs : SetPartialWithdrawVerifier(s, k)
    \/ \E s \in Signers, f, g \in FeeBps : SetFee(s, f, g)
    \/ \E s \in Signers, c \in Collectors : SetFeeCollector(s, c)
    \/ \E s \in Signers : ResetNullifiers(s)
    \/ \E s \in Signers : EmergencyResetNullifiers(s)
    \/ \E ok \in BOOLEAN : TestScalarMul(ok)
    \/ \E c \in ProgLeaves, t \in ProgTags, a \in Amounts, pc \in ProofCases,
          lane \in BOOLEAN, n \in 0..2 :
          TransparentDeposit(c, t, a, pc.proof, pc.public_inputs, lane, n)
    \/ \E ns \in ListsUpTo2(ProgTags), cs \in ListsUpTo2(ProgLeaves),
          pc \in ProofCases :
          ShieldedTransfer(ns, cs, pc.proof, pc.public_inputs)
    \/ \E a \in Amounts, pc \in ProofCases, t \in ProgTags, n \in 0..1 :
          TransparentWithdraw(a, pc.proof, pc.public_inputs, t, n)
    \/ \E a \in Amounts, pc \in ProofCases, t \in ProgTags, n \in 0..1 :
          TransparentWithdrawSol(a, pc.proof, pc.public_inputs, t, n)
    \/ \E a \in Amounts, c \in ProgLeaves, pc \in ProofCases,
          t \in ProgTags, n \in 0..1 :
          PartialWithdraw(a, c, pc.proof, pc.public_inputs, t, n)

Spec == Init /\ [][Next]_vars

----------------------------------------------------------------------------
(* One spend on a deployed program.  The initial state holds the accounts  *)
(* and the call: a small tree at every fill level or a tall tree that has  *)
(* evicted its first roots, and a set that is empty, holds one tag or is   *)
(* at most two short of its capacity.  root is the Merkle root the proof   *)
(* of the call was generated against; no instruction takes it as an        *)
(* argument.                                                               *)

SpendTags == {<<1>>, <<MAX_NULLIFIERS + 1>>, <<MAX_NULLIFIERS + 2>>}
ListsUpTo3(S) == ListsUpTo2(S) \cup {<<x, y, z>> : x, y, z \in S}
FirstTags(n) == [i \in 1..n |-> <<i>>]
SpendSets ==
    {<<>>, FirstTags(1), FirstTags(MAX_NULLIFIERS - 2),
     FirstTags(MAX_NULLIFIERS - 1), FirstTags(MAX_NULLIFIERS)}
\* the tall tree after MAX_ROOT_HISTORY + 1 appends, filled in three
\* stretches so that no stretch nests more than a third of the appends
TallThird == (MAX_ROOT_HISTORY + 1) \div 3
TallTreeFirst == Filled(initialize(EmptyAccount, RingHeight).tree, TallThird)
TallTreeSecond == Filled(TallTreeFirst, TallThird)
TallTree == Filled(TallTreeSecond, MAX_ROOT_HISTORY + 1 - 2 * TallThird)
SpendTrees ==
    {Filled(initialize(EmptyAccount, height).tree, k) :
        height \in 1..MaxSpendHeight, k \in 0..(2 ^ MaxSpendHeight)}
        \cup {TallTree}

\* the newest root, the root of the empty tree, and a digest the tree has
\* never produced
InitialRoot(height) == initialize(EmptyAccount, height).tree.cached_roots[1]
NeverRoot == hash_nodes(<<2>>, <<2>>)
SpendRoots(t) == {latest_root(t), InitialRoot(t.height), NeverRoot}

SpendProofs == {HonestProof, [HonestProof EXCEPT !.c = <<2>>]}
SpendOps ==
    {"shielded_transfer", "transparent_withdraw", "transparent_withdraw_sol",
     "partial_withdraw"}

Deployed ==
    [exists |-> TRUE, admin |-> Deployer, fee_collector |-> "collector",
     shield_fee_bps |-> 0, priority_fee_bps |-> 0]

InitSpend ==
    /\ global_state = Deployed
    /\ verifiers = [v \in VerifierNames |->
                       [exists |-> TRUE, verifying_key |-> GoodKey]]
    /\ merkle_tree \in SpendTrees
    /\ nullifier_set \in SpendSets
    /\ leaves = <<>>
    /\ roots = <<>>
    /\ \E proof \in SpendProofs, root \in SpendRoots(merkle_tree) :
          \/ \E ns \in ListsUpTo3(SpendTags), cs \in ListsUpTo2(ProgLeaves) :
                last = [op |-> "call", fn |-> "shielded_transfer",
                        input_nullifiers |-> ns, output_commitments |-> cs,
                        proof |-> proof, public_inputs |-> <<Small(1)>>,
                        root |-> root]
          \/ \E fn \in {"transparent_withdraw", "transparent_withdraw_sol"},
                a \in Amounts, t \in SpendTags, n \in 0..1 :
                last = [op |-> "call", fn |-> fn, amount |-> a,
                        proof |-> proof, public_inputs |-> <<Small(1)>>,
                        nullifier |-> t, accepted |-> n, root |-> root]
          \/ \E a \in Amounts, c \in ProgLeaves, t \in SpendTags, n \in 0..1 :
                last = [op |-> "call", fn |-> "partial_withdraw",
                        withdraw_amount |-> a, change_commitment |-> c,
                        proof |-> proof, public_inputs |-> <<Small(1)>>,
                        nullifier |-> t, accepted |-> n, root |-> root]

\* the record of the call: its arguments, its outcome and the accounts as
\* the handler left them
Answer(r) ==
    last' = [op |-> last.fn, call |-> last, err |-> r.err, stage |-> r.stage,
             fx |-> r.fx, left |-> [tree |-> r.tree, set |-> r.set]]

PendingCall(fn) == last.op = "call" /\ last.fn = fn

SpendShieldedTransfer ==
    /\ PendingCall("shielded_transfer")
    /\ LET r == shielded_transfer(last.input_nullifiers,
                                  last.output_commitments, last.proof,
                                  last.public_inputs)
       IN  Answer(r) /\ Commit(r)

SpendTransparentWithdraw ==
    /\ PendingCall("transparent_withdraw")
    /\ LET r == transparent_withdraw(last.amount, last.proof,
                                     last.public_inputs, last.nullifier,
                                     last.accepted)
       IN  Answer(r) /\ Commit(r)

SpendTransparentWithdrawSol ==
    /\ PendingCall("transparent_withdraw_sol")
    /\ LET r == transparent_withdraw_sol(last.amount, last.proof,
                                         last.public_inputs, last.nullifier,
                                         last.accepted)
       IN  Answer(r) /\ Commit(r)

SpendPartialWithdraw ==
    /\ PendingCall("partial_withdraw")
    /\ LET r == partial_withdraw(last.withdraw_amount, last.change_commitment,
                                 last.proof, last.public_inputs,
                                 last.nullifier, last.accepted)
       IN  Answer(r) /\ Commit(r)

NextSpend ==
    \/ SpendShieldedTransfer
    \/ SpendTransparentWithdraw
    \/ SpendTransparentWithdrawSol
    \/ SpendPartialWithdraw

SpecSpend == InitSpend /\ [][NextSpend]_vars

----------------------------------------------------------------------------
(* Two spends that carry the same nullifier.  Both transactions are        *)
(* submitted in the initial state; the runtime locks the accounts a        *)
(* transaction writes, so the two instructions run one after the other, in *)
(* either order, each on the accounts the one before it left.  before     *)
(* holds the nullifier set and the tree as they were when the two were     *)
(* submitted.                                                              *)

RaceTags == {<<1>>, <<MAX_NULLIFIERS + 1>>}
RaceSets ==
    {<<>>, FirstTags(1), FirstTags(MAX_NULLIFIERS - 1),
     FirstTags(MAX_NULLIFIERS)}
RaceTrees == {Filled(initialize(EmptyAccount, 1).tree, k) : k \in 1..2}
RaceTxs(nullifier) ==
    [fn : SpendOps, amount : {1}, commitment : ProgLeaves,
     nullifier : {nullifier}, proof : {HonestProof},
     public_inputs : {<<Small(1)>>}, accepted : 0..1]

Handle(tx) ==
    CASE tx.fn = "shielded_transfer" ->
           shielded_transfer(<<tx.nullifier>>, <<tx.commitment>>, tx.proof,
                             tx.public_inputs)
      [] tx.fn = "transparent_withdraw" ->
           transparent_withdraw(tx.amount, tx.proof, tx.public_inputs,
                                tx.nullifier, tx.accepted)
      [] tx.fn = "transparent_withdraw_sol" ->
           transparent_withdraw_sol(tx.amount, tx.proof, tx.public_inputs,
                                    tx.nullifier, tx.accepted)
      [] tx.fn = "partial_withdraw" ->
           partial_withdraw(tx.amount, tx.commitment, tx.proof,
                            tx.public_inputs, tx.nullifier, tx.accepted)

InitRace ==
    /\ global_state = Deployed
    /\ verifiers = [v \in VerifierNames |->
                       [exists |-> TRUE, verifying_key |-> GoodKey]]
    /\ merkle_tree \in RaceTrees
    /\ nullifier_set \in RaceSets
    /\ leaves = <<>>
    /\ roots = <<>>
    /\ \E nullifier \in RaceTags :
          \E tx1, tx2 \in RaceTxs(nullifier) :
             last = [op |-> "race", nullifier |-> nullifier,
                     txs |-> <<tx1, tx2>>,
                     before |-> [set |-> nullifier_set,
                                 tree |-> merkle_tree],
                     results |-> <<"pending", "pending">>, order |-> <<>>]

Serve(i) ==
    /\ last.op = "race"
    /\ last.results[i] = "pending"
    /\ LET r == Handle(last.txs[i])
       IN  /\ last' = [last EXCEPT !.results[i] = r.err,
                                    !.order = Append(@, i)]
           /\ Commit(r)

NextRace == \E i \in 1..2 : Serve(i)

SpecRace == InitRace /\ [][NextRace]_vars

----------------------------------------------------------------------------
(* Reference definitions the accumulator is compared with *)

RECURSIVE RefZero(_)
RefZero(l) == IF l = 0 THEN ZERO_BYTES
              ELSE hash_nodes(RefZero(l - 1), RefZero(l - 1))

\* node `pos` (from 0) at `level` of the full tree over ls padded with zeros
RECURSIVE RefNode(_, _, _)
RefNode(level, pos, ls) ==
    IF level = 0
    THEN IF pos + 1 <= Len(ls) THEN ls[pos + 1] ELSE ZERO_BYTES
    ELSE hash_nodes(RefNode(level - 1, 2 * pos, ls),
                    RefNode(level - 1, 2 * pos + 1, ls))

RefRoot(height, ls) == RefNode(height, 0, ls)

Min(a, b) == IF a <= b THEN a ELSE b
LastN(s, n) == {s[i] : i \in (Len(s) - n + 1)..Len(s)}
Initialized == merkle_tree.height > 0
LastAppend(e) == last.op = "append_leaf" /\ last.err = e

----------------------------------------------------------------------------
(* C1: on a tree of height H in 1..14 an append_leaf succeeds, and adds 1 *)
(* to current_index, exactly while current_index < 2^H; from then on it   *)
(* fails with TreeFull and current_index stays at 2^H.                    *)
C1_ExactlyCapacityAppends ==
    [][(last'.op = "append_leaf" /\ merkle_tree.height \in 1..MAX_TREE_HEIGHT)
        => /\ merkle_tree.current_index <= 2 ^ merkle_tree.height
           /\ IF merkle_tree.current_index < 2 ^ merkle_tree.height
              THEN /\ last'.err = "Ok"
                   /\ merkle_tree'.current_index = merkle_tree.current_index + 1
              ELSE /\ last'.err = "TreeFull"
                   /\ merkle_tree'.current_index = 2 ^ merkle_tree.height]_vars

C1_Witness ==
    /\ LastAppend("TreeFull")
    /\ merkle_tree.height = 2
    /\ merkle_tree.current_index = 4
    /\ Len(leaves) = 4

(* C2: the root returned by the n-th successful append_leaf is the root of *)
(* the full binary hash tree of that height over the n leaves followed by  *)
(* zero leaves.                                                            *)
C2_RootIsReferenceRoot ==
    Initialized =>
        /\ Len(roots) = Len(leaves)
        /\ \A n \in 1..Len(roots) :
              roots[n] = RefRoot(merkle_tree.height, SubSeq(leaves, 1, n))

C2_Witness ==
    /\ LastAppend("Ok")
    /\ merkle_tree.height = 2
    /\ Len(leaves) = 4
    /\ ZERO_BYTES \notin {leaves[i] : i \in 1..4}
    /\ roots[4] = hash_nodes(hash_nodes(leaves[1], leaves[2]),
                             hash_nodes(leaves[3], leaves[4]))

(* C7 as stated: contains_root holds exactly for the roots produced by the *)
(* last min(K, current_index) insertions.                                  *)
RootCandidates ==
    {roots[i] : i \in 1..Len(roots)}
        \cup {merkle_tree.cached_roots[i] : i \in 1..Len(merkle_tree.cached_roots)}
        \cup {RefZero(l) : l \in 0..merkle_tree.height}

C7_OnlyProducedRoots ==
    Initialized =>
        \A r \in RootCandidates :
            contains_root(merkle_tree, r)
                <=> r \in LastN(roots, Min(MAX_ROOT_HISTORY,
                                           merkle_tree.current_index))

(* C7 amended: contains_root holds exactly for the last                    *)
(* min(K, current_index + 1) entries of the sequence made of the root      *)
(* cached by initialize followed by the roots the insertions produced.     *)
C7_LastCachedRoots ==
    Initialized =>
        \A r \in RootCandidates :
            contains_root(merkle_tree, r)
                <=> r \in LastN(<<RefZero(merkle_tree.height - 1)>> \o roots,
                                Min(MAX_ROOT_HISTORY,
                                    merkle_tree.current_index + 1))

C7_Witness ==
    /\ LastAppend("Ok")
    /\ merkle_tree.current_index > MAX_ROOT_HISTORY
    /\ ~contains_root(merkle_tree, roots[1])
    /\ ~contains_root(merkle_tree, RefZero(merkle_tree.height - 1))
    /\ contains_root(merkle_tree, roots[2])
    /\ contains_root(merkle_tree, roots[Len(roots)])

(* C10: initialize(0) fails with CapacityExceeded; initialize(height) with *)
(* height > 0 sets current_index = 0, filled_subtrees[l] = zero[l] for    *)
(* every level l below height, and cached_roots = [zero[height - 1]].      *)
C10_InitializeResult ==
    last.op = "initialize" =>
        LET height == last.arg[1]
        IN  IF height = 0
            THEN last.err = "CapacityExceeded"
            ELSE /\ last.err = "Ok"
                 /\ merkle_tree.height = height
                 /\ merkle_tree.current_index = 0
                 /\ Len(merkle_tree.filled_subtrees) = height
                 /\ \A l \in 0..(height - 1) :
                        merkle_tree.filled_subtrees[l + 1] = RefZero(l)
                 /\ merkle_tree.cached_roots = <<RefZero(height - 1)>>

C10_Witness ==
    /\ last.op = "initialize"
    /\ last.err = "Ok"
    /\ leaves = <<>>
    /\ merkle_tree.height = 3
    /\ merkle_tree.cached_roots = <<RefZero(2)>>

C10_WitnessZero ==
    /\ last.op = "initialize"
    /\ last.err = "CapacityExceeded"

LastTrack(e) == last.op = "track_nullifier" /\ last.err = e

(* C3: a track_nullifier call with a tag that is not in the set, while the *)
(* set is below capacity, succeeds and appends the tag; a call with a tag  *)
(* that is in the set fails with NullifierUsed and leaves the set as it    *)
(* was; a tag of the set stays in the set.                                 *)
C3_FirstTrackWinsLaterFail ==
    [][last'.op = "track_nullifier"
        => /\ Range(nullifier_set) \subseteq Range(nullifier_set')
           /\ IF last'.arg \in Range(nullifier_set)
              THEN /\ last'.err = "NullifierUsed"
                   /\ nullifier_set' = nullifier_set
              ELSE Len(nullifier_set) < MAX_NULLIFIERS
                      => /\ last'.err = "Ok"
                         /\ nullifier_set' = Append(nullifier_set, last'.arg)]_vars

C3_Witness ==
    /\ LastTrack("NullifierUsed")
    /\ Len(nullifier_set) = 3
    /\ last.arg = nullifier_set[1]

(* C5: a failing append_leaf (TreeFull) leaves the whole tree account as    *)
(* it was, and a failing track_nullifier (NullifierUsed, CapacityExceeded)  *)
(* leaves the nullifier sequence as it was.                                 *)
C5_FailureMutatesNothing ==
    [][/\ (last'.op = "append_leaf" /\ last'.err # "Ok")
            => (last'.err = "TreeFull" /\ merkle_tree' = merkle_tree)
       /\ (last'.op = "track_nullifier" /\ last'.err # "Ok")
            => /\ last'.err \in {"NullifierUsed", "CapacityExceeded"}
               /\ nullifier_set' = nullifier_set]_vars

C5_Witness ==
    /\ LastAppend("TreeFull")
    /\ merkle_tree.current_index = 2 ^ merkle_tree.height
    /\ Len(nullifier_set) = MAX_NULLIFIERS

C5_WitnessTrack ==
    /\ LastTrack("CapacityExceeded")
    /\ merkle_tree.current_index = 2 ^ merkle_tree.height

(* C8: from the empty set, a track_nullifier call with a tag that is not   *)
(* in the set succeeds while the set holds fewer than 256 tags, so 256     *)
(* distinct tags are accepted; with 256 tags held it fails with            *)
(* CapacityExceeded and the set stays at length 256.                       *)
C8_CapacityIsMaxNullifiers ==
    /\ Len(nullifier_set) <= MAX_NULLIFIERS
    /\ Cardinality(Range(nullifier_set)) = Len(nullifier_set)
    /\ LastTrack("Ok") => last.arg = nullifier_set[Len(nullifier_set)]
    /\ LastTrack("CapacityExceeded")
          => /\ Len(nullifier_set) = MAX_NULLIFIERS
             /\ last.arg \notin Range(nullifier_set)
    /\ (last.op = "track_nullifier" /\ Len(nullifier_set) < MAX_NULLIFIERS)
          => last.err \in {"Ok", "NullifierUsed"}
    /\ LastTrack("NullifierUsed") => last.arg \in Range(nullifier_set)

C8_Witness ==
    /\ LastTrack("CapacityExceeded")
    /\ Len(nullifier_set) = MAX_NULLIFIERS
    /\ last.arg = <<MAX_NULLIFIERS + 1>>

----------------------------------------------------------------------------
ProofInstructions ==
    {"transparent_deposit", "shielded_transfer", "transparent_withdraw",
     "transparent_withdraw_sol", "partial_withdraw"}
VerifyFailed(e) == e.op \in ProofInstructions /\ e.verify \notin {"Ok", "none"}

(* C4: once the program is initialized, a nullifier that is in the set is   *)
(* in the set after every instruction: nothing removes or clears it.        *)
C4_RecordedNullifiersStay ==
    [][global_state.exists
          => Range(nullifier_set) \subseteq Range(nullifier_set')]_vars

(* C6: when verify_groth16 fails on the proof of a proof-taking             *)
(* instruction, the instruction fails no later than at the verification,    *)
(* having recorded no nullifier, appended no leaf and made no transfer, and *)
(* the nullifier set and the tree are as they were.                         *)
C6_VerifyBeforeMutation ==
    [][VerifyFailed(last')
          => /\ last'.err # "Ok"
             /\ last'.stage \in {"amount", "verify"}
             /\ last'.fx = <<>>
             /\ nullifier_set' = nullifier_set
             /\ merkle_tree' = merkle_tree
             /\ leaves' = leaves]_vars

\* a forged proof presented with a nullifier the set would have taken
C6_Witness ==
    /\ last.op \in ProofInstructions \ {"transparent_deposit"}
    /\ last.verify = "InvalidProof"
    /\ last.stage = "verify"
    /\ Len(nullifier_set) < MAX_NULLIFIERS
    /\ merkle_tree.current_index < 2 ^ merkle_tree.height

(* C9: in every state the program reaches, resets included, the nullifier  *)
(* set holds no tag twice and holds at most MAX_NULLIFIERS tags.            *)
C9_NoDuplicatesWithinCapacity ==
    /\ Len(nullifier_set) <= MAX_NULLIFIERS
    /\ \A i, j \in 1..Len(nullifier_set) :
           nullifier_set[i] = nullifier_set[j] => i = j

\* a shielded_transfer that presents one tag twice, and an instruction that
\* presents a new tag to the full set
C9_Witness ==
    /\ last.op = "shielded_transfer"
    /\ last.err = "NullifierUsed"
    /\ last.fx = <<"track", "emit">>
    /\ Len(nullifier_set) > 0
C9_WitnessFull ==
    /\ last.err = "CapacityExceeded"
    /\ last.stage = "track"
    /\ Len(nullifier_set) = MAX_NULLIFIERS

----------------------------------------------------------------------------
(* C11: the root cached by initialize(height) is the root of the reference *)
(* tree of that height whose 2^height leaves are all the zero leaf.         *)
C11_InitialRootIsEmptyTreeRoot ==
    (Initialized /\ merkle_tree.current_index = 0)
        => latest_root(merkle_tree) = RefRoot(merkle_tree.height, <<>>)

(* C12: after initialization cached_roots holds between 1 and               *)
(* MAX_ROOT_HISTORY entries and ends with the root of the most recent       *)
(* successful append_leaf, or with the root cached by initialize when no    *)
(* leaf has been appended; a successful append_leaf on a full ring drops    *)
(* exactly the oldest entry and keeps the others in order, and on a ring    *)
(* with room drops nothing.                                                 *)
C12_RingEndsWithLatestRoot ==
    [][Initialized'
          => /\ Len(merkle_tree'.cached_roots) \in 1..MAX_ROOT_HISTORY
             /\ latest_root(merkle_tree')
                    = IF roots' = <<>>
                      THEN default_zero_hashes(merkle_tree'.height)
                               [merkle_tree'.height]
                      ELSE roots'[Len(roots')]
             /\ (last'.op = "append_leaf" /\ last'.err = "Ok")
                    => merkle_tree'.cached_roots
                         = (IF Len(merkle_tree.cached_roots) >= MAX_ROOT_HISTORY
                            THEN Tail(merkle_tree.cached_roots)
                            ELSE merkle_tree.cached_roots)
                               \o <<roots'[Len(roots')]>>]_vars

\* the second eviction: the ring starts with the root of the second append
C12_Witness ==
    /\ LastAppend("Ok")
    /\ merkle_tree.current_index = MAX_ROOT_HISTORY + 1
    /\ Len(merkle_tree.cached_roots) = MAX_ROOT_HISTORY
    /\ merkle_tree.cached_roots[1] = roots[2]
    /\ latest_root(merkle_tree) = roots[MAX_ROOT_HISTORY + 1]

(* C13: after initialization current_index is at most 2^height and equals  *)
(* the number of successful append_leaf calls since initialize, and         *)
(* filled_subtrees holds exactly `height` entries.                          *)
C13_IndexCountsAppends ==
    Initialized =>
        /\ merkle_tree.current_index <= 2 ^ merkle_tree.height
        /\ merkle_tree.current_index = Len(leaves)
        /\ Len(merkle_tree.filled_subtrees) = merkle_tree.height
        /\ DOMAIN default_zero_hashes(merkle_tree.height)
               = 1..merkle_tree.height

C13_Witness ==
    /\ LastAppend("TreeFull")
    /\ merkle_tree.height = 3
    /\ merkle_tree.current_index = 8
    /\ Len(leaves) = 8

----------------------------------------------------------------------------
LastReduce == last.op = "reduce_mod_order_be"
LastNegate == last.op = "negate_g2"

\* v = r + k * modulus for some k
Congruent(v, r) ==
    \E k \in 0..(MaxMultiple + 1) : RefAdd(Wide(r), Multiple(k)) = Wide(v)

(* C18: reduce_mod_order_be returns a value below the modulus that differs *)
(* from its input by a multiple of the modulus; an input below the modulus *)
(* is returned as it is, and reducing the result again changes nothing.    *)
C18_ReduceIsModularReduction ==
    LastReduce =>
        /\ RefLess(last.out, FIELD_MODULUS_BE)
        /\ Congruent(last.arg, last.out)
        /\ RefLess(last.arg, FIELD_MODULUS_BE) => last.out = last.arg
        /\ reduce_mod_order_be(last.out) = last.out

\* an input of at least twice the modulus, with a borrow in the subtraction
C18_Witness ==
    /\ LastReduce
    /\ last.arg = NearMultiple(4, 1)
    /\ last.out = NearMultiple(0, 1)
    /\ last.subtractions = 4

\* the four 32-byte components of a G2 encoding: x (two), then y (two)
Component(point, n) ==
    SubSeq(point, (n - 1) * FIELD_BYTES + 1, n * FIELD_BYTES)

\* c2 is the negation of c modulo the modulus, in canonical form
NegationOf(c, c2) ==
    /\ RefLess(c2, FIELD_MODULUS_BE)
    /\ \E k \in 0..(MaxMultiple + 1) :
           RefAdd(Wide(c), Wide(c2)) = Multiple(k)
    /\ is_zero(c) => is_zero(c2)

(* C20 as stated: for every 128-byte encoding negate_g2 keeps the two x    *)
(* components and replaces each y component by its negation modulo the     *)
(* modulus, zero by zero.                                                   *)
C20_NegatesEveryEncoding ==
    LastNegate =>
        /\ Len(last.out) = 4 * FIELD_BYTES
        /\ \A n \in {1, 2} : Component(last.out, n) = Component(last.arg, n)
        /\ \A n \in {3, 4} :
               NegationOf(Component(last.arg, n), Component(last.out, n))

(* C20 amended: negate_g2 keeps the two x components of every encoding,     *)
(* and replaces a y component c that is at most the modulus by its          *)
(* negation modulo the modulus, zero by zero.                               *)
C20_NegatesCanonicalComponents ==
    LastNegate =>
        /\ Len(last.out) = 4 * FIELD_BYTES
        /\ \A n \in {1, 2} : Component(last.out, n) = Component(last.arg, n)
        /\ \A n \in {3, 4} :
               ~RefLess(FIELD_MODULUS_BE, Component(last.arg, n))
                  => NegationOf(Component(last.arg, n), Component(last.out, n))

\* y = (modulus - 1, 0) becomes (1, 0)
C20_Witness ==
    /\ LastNegate
    /\ Component(last.arg, 1) = SnarkjsCommitment
    /\ Component(last.arg, 3) = NearMultiple(1, 0 - 1)
    /\ Component(last.arg, 4) = ZERO_COORDINATE
    /\ Component(last.out, 3) = NearMultiple(0, 1)
    /\ Component(last.out, 4) = ZERO_COORDINATE

----------------------------------------------------------------------------
LastVerify == last.op = "verify_groth16"
LastAccumulate == last.op = "accumulate_ic"

\* the blob is the encoding of a key: four points, a length prefix and as
\* many ic points as the prefix says, with no byte left over
Decodes(blob) == blob.len = 64 + 3 * 128 + 4 + 64 * Len(blob.ic)
KeyAccepted == last.key.len # 0 /\ Decodes(last.key) /\ last.key.ic # <<>>
PrechecksPass ==
    /\ KeyAccepted
    /\ Len(last.key.ic) = Len(last.public_inputs) + 1
    /\ last.proof.len = 256

(* C14: verify_groth16 rejects in a fixed order, whatever the proof is: an *)
(* empty key blob gives VerifierMissing; else a blob that does not decode  *)
(* or has no ic point gives InvalidVerifierKey; else a number of public    *)
(* inputs other than the number of ic points minus one gives InvalidProof; *)
(* else a proof that is not 256 bytes long gives InvalidProof; the curve   *)
(* backend is called only when none of these applies.                      *)
C14_RejectionPrecedence ==
    LastVerify =>
        IF last.key.len = 0
        THEN last.err = "VerifierMissing" /\ last.calls = <<>>
        ELSE IF ~Decodes(last.key) \/ last.key.ic = <<>>
        THEN last.err = "InvalidVerifierKey" /\ last.calls = <<>>
        ELSE IF Len(last.key.ic) # Len(last.public_inputs) + 1
        THEN last.err = "InvalidProof" /\ last.calls = <<>>
        ELSE IF last.proof.len # 256
        THEN last.err = "InvalidProof" /\ last.calls = <<>>
        ELSE last.calls # <<>>

\* an empty key blob presented with a proof of the wrong length and two
\* public inputs
C14_Witness ==
    /\ LastVerify
    /\ last.key.len = 0
    /\ last.proof.len # 256
    /\ Len(last.public_inputs) = 2
    /\ last.err = "VerifierMissing"

\* the backend's answer to a recorded call is an error, has the wrong
\* length, or is a pairing result other than 1
CallFails(call) ==
    IF call.fn = "alt_bn128_multiplication"
    THEN LET raw == alt_bn128_multiplication(call.input[1], call.input[2])
         IN  raw.err # "Ok" \/ raw.len # 64
    ELSE IF call.fn = "alt_bn128_addition"
    THEN LET raw == alt_bn128_addition(call.input[1], call.input[2])
         IN  raw.err # "Ok" \/ raw.len # 64
    ELSE LET result == alt_bn128_pairing(call.input)
         IN  result.err # "Ok" \/ result.out # Small(1)

\* the log of a failed call holds a record that only one sub-step writes:
\* the backend error code of a scalar multiplication, or the accumulator,
\* which is logged once every multiplication and addition has succeeded
LogNamesSubStep ==
    \E i \in 1..Len(last.logs) :
        last.logs[i].label \in {"shield.scalar_mul.error", "shield.vk_x"}

(* C15: once the key is accepted, every failure of verify_groth16 (number  *)
(* of public inputs, proof length, a backend call that failed or answered  *)
(* with the wrong length, a pairing result other than 1) returns           *)
(* InvalidProof, and what the failed call leaves behind, its error and its *)
(* log records, does not tell which sub-step failed.                       *)
C15_FailureHidesSubStep ==
    (LastVerify /\ KeyAccepted) =>
        /\ last.err \in {"Ok", "InvalidProof"}
        /\ (~PrechecksPass \/ \E i \in 1..Len(last.calls) : CallFails(last.calls[i]))
               => last.err = "InvalidProof"
        /\ last.err # "Ok" => ~LogNamesSubStep

\* the part of C15 about the returned error alone
C15_FailuresAreInvalidProof ==
    (LastVerify /\ KeyAccepted) =>
        /\ last.err \in {"Ok", "InvalidProof"}
        /\ (~PrechecksPass \/ \E i \in 1..Len(last.calls) : CallFails(last.calls[i]))
               => last.err = "InvalidProof"

\* a scalar multiplication the backend rejects
C15_MulFailure ==
    /\ LastVerify
    /\ PrechecksPass
    /\ Len(last.calls) = 1
    /\ last.calls[1].fn = "alt_bn128_multiplication"
    /\ last.err = "InvalidProof"
    /\ last.logs[Len(last.logs)] = Log("shield.scalar_mul.error", "Err")

\* the inverse of a point in the group
Neg(point) ==
    IF OnCurve(point) THEN <<(GroupOrder - point[1]) % GroupOrder>>
    ELSE NoPoint

\* the sum of scalar_i * ic[i + 1] over the pairs from i on
RECURSIVE RefSum(_, _, _)
RefSum(ic, scalars, i) ==
    IF i > Len(scalars) \/ i + 1 > Len(ic) THEN 0
    ELSE ScalarMod(scalars[i], 1, 0) * ic[i + 1][1] + RefSum(ic, scalars, i + 1)
\* ic[0] plus that sum; bytes that are no point have no sum and stay as
\* they are
RefAccumulate(ic, scalars) ==
    IF OnCurve(ic[1]) THEN <<(ic[1][1] + RefSum(ic, scalars, 1)) % GroupOrder>>
    ELSE ic[1]

PairingCalls == {i \in 1..Len(last.calls) : last.calls[i].fn = "alt_bn128_pairing"}
ExpectedTerms ==
    <<<<last.proof.a, last.proof.b>>,
      <<RefAccumulate(last.key.ic,
                      [i \in 1..Len(last.public_inputs) |->
                          reduce_mod_order_be(last.public_inputs[i])]),
        Neg(last.key.gamma_g2)>>,
      <<last.proof.c, Neg(last.key.delta_g2)>>,
      <<last.key.alpha_g1, Neg(last.key.beta_g2)>>>>

(* C16: when the pre-checks pass, verify_groth16 calls the pairing backend *)
(* at most once, as its last backend call and on the four terms (A, B),    *)
(* (vk_x, -gamma), (C, -delta), (alpha, -beta), and it returns Ok exactly  *)
(* when that call returns the 32 bytes 0...01; otherwise it returns        *)
(* InvalidProof.                                                           *)
C16_OkIffPairingIsOne ==
    (LastVerify /\ PrechecksPass) =>
        /\ PairingCalls \subseteq {Len(last.calls)}
        /\ \A i \in PairingCalls : last.calls[i].input = ExpectedTerms
        /\ last.err = "Ok" <=>
               \E i \in PairingCalls :
                   alt_bn128_pairing(last.calls[i].input)
                       = [err |-> "Ok", out |-> Small(1)]
        /\ last.err # "Ok" => last.err = "InvalidProof"

\* a proof that is accepted for a public input above the modulus
C16_Witness ==
    /\ LastVerify
    /\ last.key = GoodKey
    /\ last.public_inputs = <<NearMultiple(1, 1)>>
    /\ PairingCalls = {3}
    /\ last.err = "Ok"

\* the pairs of accumulate_ic and the ones it does not skip
Pairs == 1..Min(Len(last.scalars), Len(last.ic) - 1)
Kept == {i \in Pairs : last.scalars[i] # ZERO_COORDINATE /\ last.ic[i + 1] # <<0>>}
Position(i) == Cardinality({k \in Kept : k <= i})

(* C17: accumulate_ic returns ic[0] plus the sum of scalar_i * ic[i+1]: it *)
(* makes no backend call for a pair whose scalar or point is all zero, one *)
(* multiplication followed by one addition for every other pair, and with  *)
(* no public inputs it returns ic[0] without a backend call.               *)
C17_AccumulateIsSum ==
    LastAccumulate =>
        /\ Len(last.calls) <= 2 * Cardinality(Kept)
        /\ Kept = {} => (last.err = "Ok" /\ last.acc = last.ic[1]
                            /\ last.calls = <<>>)
        /\ (\A i \in 1..Len(last.ic) : OnCurve(last.ic[i])) =>
               /\ last.err = "Ok"
               /\ last.acc = RefAccumulate(last.ic, last.scalars)
               /\ Len(last.calls) = 2 * Cardinality(Kept)
               /\ \A i \in Kept :
                      /\ last.calls[2 * Position(i) - 1]
                             = Call("alt_bn128_multiplication",
                                    <<last.ic[i + 1], last.scalars[i]>>)
                      /\ last.calls[2 * Position(i)].fn = "alt_bn128_addition"
                      /\ last.calls[2 * Position(i)].input[2]
                             = alt_bn128_multiplication(last.ic[i + 1],
                                                        last.scalars[i]).point

\* the first pair is skipped for its zero point, the second is multiplied
\* and added
C17_Witness ==
    /\ LastAccumulate
    /\ last.ic = <<<<1>>, <<0>>, <<2>>>>
    /\ last.scalars = <<Small(2), Small(1)>>
    /\ Len(last.calls) = 2
    /\ last.acc = <<3>>

----------------------------------------------------------------------------
Returned == last.op = "loops" /\ last.pc = "return"

\* a call that has returned left what the call as a whole leaves
LoopsAgreeWithCalls ==
    Returned =>
        /\ last.fn = "append_leaf" =>
               LET r == append_leaf(last.arg.tree, last.arg.leaf)
               IN  last.err = r.err /\ merkle_tree = r.tree
        /\ last.fn = "track_nullifier" =>
               LET r == track_nullifier(last.arg.set, last.arg.nullifier)
               IN  last.err = r.err /\ nullifier_set = r.set
        /\ last.fn = "reduce_mod_order_be" =>
               last.loc.value = reduce_mod_order_be(last.arg)
        /\ last.fn = "verify_groth16" =>
               last.err = verify_groth16([exists |-> TRUE,
                                          verifying_key |-> last.arg.key],
                                         last.arg.proof,
                                         last.arg.public_inputs).err

\* the iterations made so far are within the bound of the loop, and a call
\* that has returned made the number its loop prescribes
IterationBounds ==
    /\ last.fn = "append_leaf" =>
           /\ last.iterations <= merkle_tree.height
           /\ Returned =>
                  last.iterations
                      = IF last.err = "Ok" THEN merkle_tree.height ELSE 0
    /\ last.fn = "track_nullifier" =>
           /\ last.iterations <= Len(last.arg.set)
           /\ last.iterations <= 256
    /\ last.fn = "reduce_mod_order_be" => last.iterations <= MaxMultiple
    /\ (last.fn = "verify_groth16" /\ last.pc \in {"normalize", "accumulate"}) =>
           /\ last.loc.subtractions <= MaxMultiple
           /\ last.loc.i <= Len(last.arg.public_inputs) + 1

\* a call that has not returned can take its next step: no loop has run
\* into the limit up to which its iterations are counted
CanStep ==
    \/ last.pc \in {"call", "for", "any", "accumulate", "pairing"}
    \/ /\ At("reduce_mod_order_be", "while")
       /\ \/ cmp_be(last.loc.value, FIELD_MODULUS_BE) = "Less"
          \/ last.iterations <= MaxMultiple
    \/ /\ At("verify_groth16", "normalize")
       /\ \/ last.loc.i > Len(last.arg.public_inputs)
          \/ cmp_be(last.loc.value, FIELD_MODULUS_BE) = "Less"
          \/ last.loc.subtractions <= MaxMultiple

\* a bound on the steps a call has left
Remaining ==
    IF last.pc = "return" THEN 0
    ELSE IF last.fn = "append_leaf"
    THEN (IF last.pc = "call" THEN merkle_tree.height + 2
          ELSE merkle_tree.height - last.loc.level + 1)
    ELSE IF last.fn = "track_nullifier"
    THEN Len(nullifier_set) - last.iterations + 1
    ELSE IF last.fn = "reduce_mod_order_be"
    THEN (IF last.pc = "call" THEN MaxMultiple + 4
          ELSE MaxMultiple + 3 - last.iterations)
    ELSE LET n == Len(last.arg.public_inputs)
             each == MaxMultiple + 3
         IN  IF last.pc = "call" THEN (n + 2) * each + n + 4
             ELSE IF last.pc = "normalize"
             THEN (n + 1 - last.loc.i) * each
                      + (each - 1 - last.loc.subtractions) + n + 3
             ELSE IF last.pc = "accumulate" THEN n + 3 - last.loc.i
             ELSE 1

(* C19: append_leaf, track_nullifier and verify_groth16 return on every    *)
(* input: a call that has not returned can take a step, every step brings  *)
(* it closer to its return, the loop of an append_leaf that passes the     *)
(* capacity check runs height iterations, the scan of track_nullifier      *)
(* looks at no more than 256 entries, and reduce_mod_order_be subtracts    *)
(* the modulus no more than MaxMultiple times from any 32-byte input.      *)
C19_CallsReturn ==
    /\ [](IterationBounds /\ Remaining >= 0 /\ (Returned \/ CanStep))
    /\ [][Remaining' < Remaining]_vars

\* the largest 32-byte input has been reduced with MaxMultiple subtractions
C19_Witness ==
    /\ Returned
    /\ last.fn = "reduce_mod_order_be"
    /\ last.arg = Pattern(255, 255)
    /\ last.iterations = MaxMultiple

\* an append to the tallest tree has run its loop
C19_WitnessAppend ==
    /\ Returned
    /\ last.fn = "append_leaf"
    /\ last.err = "Ok"
    /\ last.iterations = MaxHeight

\* a scan of a full set that finds nothing
C19_WitnessTrack ==
    /\ Returned
    /\ last.fn = "track_nullifier"
    /\ last.err = "CapacityExceeded"
    /\ last.iterations = 256

\* a verification with two inputs above the modulus
C19_WitnessVerify ==
    /\ Returned
    /\ last.fn = "verify_groth16"
    /\ Len(last.arg.public_inputs) = 2
    /\ last.iterations >= 2 * MaxMultiple + 2

----------------------------------------------------------------------------
LastValidate == last.op = "validate_verifier_key_blob"
Accounts == <<global_state, verifiers, merkle_tree, nullifier_set>>

(* C21: validate_verifier_key_blob returns Ok exactly when the blob        *)
(* decodes as a verifying key with at least one ic point and               *)
(* InvalidVerifierKey otherwise, it changes no account, and a blob it      *)
(* accepts never makes verify_groth16 fail with VerifierMissing or         *)
(* InvalidVerifierKey.                                                     *)
C21_ValidateIsPureKeyCheck ==
    /\ [](LastValidate =>
             IF Decodes(last.key) /\ last.key.ic # <<>>
             THEN last.err = "Ok"
             ELSE last.err = "InvalidVerifierKey")
    /\ []((LastVerify /\ validate_verifier_key_blob(last.key) = "Ok") =>
             last.err \notin {"VerifierMissing", "InvalidVerifierKey"})
    /\ [][last'.op = "validate_verifier_key_blob" => UNCHANGED Accounts]_vars

\* a key with three ic points is accepted
C21_Witness ==
    /\ LastValidate
    /\ Len(last.key.ic) = 3
    /\ last.err = "Ok"

\* a blob that decodes to a key with no ic point is refused
C21_WitnessNoIc ==
    /\ LastValidate
    /\ Decodes(last.key)
    /\ last.key.ic = <<>>
    /\ last.err = "InvalidVerifierKey"

\* verify_groth16 on a blob the check accepts, failing for another reason
C21_WitnessVerify ==
    /\ LastVerify
    /\ validate_verifier_key_blob(last.key) = "Ok"
    /\ last.err = "InvalidProof"

----------------------------------------------------------------------------
LastDecode == last.op = "decode"

\* the key as the blob the verifier is given: its length and its fields
BlobOf(key, bytes) ==
    [len |-> Len(bytes), alpha_g1 |-> key.alpha_g1, beta_g2 |-> key.beta_g2,
     gamma_g2 |-> key.gamma_g2, delta_g2 |-> key.delta_g2, ic |-> key.ic]

(* C22: decoding the bytes that encode a verifying key succeeds and gives  *)
(* back the key field for field: alpha_g1, beta_g2, gamma_g2, delta_g2 and *)
(* the ic points, as many as were encoded and in the same order.           *)
C22_KeyRoundTrip ==
    (LastDecode /\ last.how = "none") =>
        /\ last.decoded.err = "Ok"
        /\ last.decoded.alpha_g1 = last.key.alpha_g1
        /\ last.decoded.beta_g2 = last.key.beta_g2
        /\ last.decoded.gamma_g2 = last.key.gamma_g2
        /\ last.decoded.delta_g2 = last.key.delta_g2
        /\ Len(last.decoded.ic) = Len(last.key.ic)
        /\ \A i \in 1..Len(last.key.ic) : last.decoded.ic[i] = last.key.ic[i]

\* a key with three ic points, the second differing from the others
C22_Witness ==
    /\ LastDecode
    /\ last.how = "none"
    /\ last.key.ic = <<PointBytes(1, 64), PointBytes(200, 64), PointBytes(1, 64)>>
    /\ Len(last.bytes) = 64 + 3 * 128 + 4 + 3 * 64
    /\ last.decoded.err = "Ok"

\* the bytes decode exactly when the blob made of their length and the
\* fields they were encoded from does, and to the same key
C22_BytesAgreeWithBlob ==
    (LastDecode /\ last.how # "prefix") =>
        LET blob == load_verifier_key(BlobOf(last.key, last.bytes))
        IN  /\ blob.err = last.decoded.err
            /\ blob.err = "Ok" => blob = last.decoded

\* damaged bytes do not decode
C22_DamagedBytesRefused ==
    (LastDecode /\ last.how # "none") =>
        last.decoded.err = "InvalidVerifierKey"

----------------------------------------------------------------------------
\* the pairing equation e(A, B) = e(alpha, beta) e(vk_x, gamma) e(C, delta)
\* in the group, for a proof generated with a nonzero A and B
Satisfies(key, proof, inputs) ==
    /\ proof.len = 256
    /\ OnCurve(proof.a) /\ OnCurve(proof.b) /\ OnCurve(proof.c)
    /\ proof.a # <<0>> /\ proof.b # <<0>>
    /\ (proof.a[1] * proof.b[1]) % GroupOrder
           = (key.alpha_g1[1] * key.beta_g2[1]
                + RefAccumulate(key.ic,
                                [i \in 1..Len(inputs) |->
                                    reduce_mod_order_be(inputs[i])])[1]
                      * key.gamma_g2[1]
                + proof.c[1] * key.delta_g2[1]) % GroupOrder

\* the points in which two proofs differ
Changed(p, q) == {f \in {"a", "b", "c"} : p[f] # q[f]}

\* the proof is an honest proof for the key and the inputs with the bytes
\* of one point changed
FlippedFromHonest ==
    \E h \in FlipProofs :
        /\ Satisfies(last.key, h, last.public_inputs)
        /\ Cardinality(Changed(h, last.proof)) = 1

C23_WitnessFlipped ==
    /\ LastVerify
    /\ last.key = GoodKey
    /\ last.public_inputs = <<Small(1)>>
    /\ OnCurve(last.proof.a) /\ OnCurve(last.proof.b) /\ OnCurve(last.proof.c)
    /\ \E h \in FlipProofs :
           /\ Satisfies(last.key, h, last.public_inputs)
           /\ Changed(h, last.proof) = {"b"}
    /\ last.err = "InvalidProof"

\* an honest proof whose C was changed into bytes that are no point
C23_WitnessNoPoint ==
    /\ LastVerify
    /\ last.key = GoodKey
    /\ last.proof.c = NoPoint
    /\ FlippedFromHonest
    /\ last.err = "InvalidProof"

----------------------------------------------------------------------------
Resets == {"reset_nullifiers", "emergency_reset_nullifiers"}

(* C24: on a deployed program emergency_reset_nullifiers succeeds for      *)
(* every signer and reset_nullifiers for the admin alone; a reset that     *)
(* succeeds leaves the nullifier set empty, so that track_nullifier        *)
(* accepts again every tag the set held, and one that fails leaves the set *)
(* as it was.                                                              *)
C24_ResetsReopenSpentTags ==
    [][(last'.op \in Resets /\ global_state.exists) =>
          /\ last'.op = "emergency_reset_nullifiers" => last'.err = "Ok"
          /\ last'.op = "reset_nullifiers" =>
                 (last'.err = "Ok" <=> last'.signer = global_state.admin)
          /\ last'.err = "Ok" =>
                 /\ nullifier_set' = <<>>
                 /\ \A i \in 1..Len(nullifier_set) :
                        track_nullifier(nullifier_set', nullifier_set[i]).err
                            = "Ok"
          /\ last'.err # "Ok" => nullifier_set' = nullifier_set]_vars

\* a signer who is not the admin has emptied a full set
C24_Witness ==
    /\ last.op = "emergency_reset_nullifiers"
    /\ last.signer # global_state.admin
    /\ last.cleared = MAX_NULLIFIERS
    /\ last.err = "Ok"
    /\ nullifier_set = <<>>

\* the same signer is refused by reset_nullifiers
C24_WitnessRefused ==
    /\ last.op = "reset_nullifiers"
    /\ last.signer # global_state.admin
    /\ last.cleared = MAX_NULLIFIERS
    /\ last.err = "ConstraintHasOne"
    /\ Len(nullifier_set) = MAX_NULLIFIERS

\* the admin has emptied a full set with reset_nullifiers
C24_WitnessAdmin ==
    /\ last.op = "reset_nullifiers"
    /\ last.signer = global_state.admin
    /\ last.cleared = MAX_NULLIFIERS
    /\ last.err = "Ok"
    /\ nullifier_set = <<>>

----------------------------------------------------------------------------
(* C28: track_nullifier looks for the tag before it looks at the capacity: *)
(* on a set of 256 entries a tag that is one of them fails with            *)
(* NullifierUsed, and CapacityExceeded is returned only for a tag that is  *)
(* not in a full set.                                                      *)
C28_DuplicateBeforeCapacity ==
    [][last'.op = "track_nullifier" =>
          /\ (Len(nullifier_set) = 256 /\ last'.arg \in Range(nullifier_set))
                 => last'.err = "NullifierUsed"
          /\ last'.err = "CapacityExceeded"
                 => (Len(nullifier_set) >= 256
                        /\ last'.arg \notin Range(nullifier_set))]_vars

\* the entry in the middle of a full set is presented again
C28_Witness ==
    /\ last.op = "track_nullifier"
    /\ Len(nullifier_set) = 256
    /\ last.arg = nullifier_set[128]
    /\ last.err = "NullifierUsed"

\* a tag that a full set does not hold
C28_WitnessCapacity ==
    /\ last.op = "track_nullifier"
    /\ Len(nullifier_set) = 256
    /\ last.arg \notin Range(nullifier_set)
    /\ last.err = "CapacityExceeded"

----------------------------------------------------------------------------
LastScalarMul == last.op = "g1_scalar_mul"

\* the 32 bytes of the scalar one
ScalarOne == [i \in 1..32 |-> IF i = 32 THEN 1 ELSE 0]

(* C27: g1_scalar_mul returns what the backend returns, byte for byte, so  *)
(* that a valid G1 point multiplied by the scalar 1 comes back as the same *)
(* 64 bytes.                                                               *)
C27_ScalarMulReturnsBackendResult ==
    LastScalarMul =>
        /\ last.err = "Ok" =>
               last.result
                   = alt_bn128_multiplication_be(last.point \o last.scalar).out
        /\ (G1Name(last.point) # NoPoint /\ last.scalar = ScalarOne) =>
               (last.err = "Ok" /\ last.result = last.point)

\* the generator (1, 2) times one
C27_Witness ==
    /\ LastScalarMul
    /\ last.point = [i \in 1..64 |-> IF i = 32 THEN 1 ELSE IF i = 64 THEN 2 ELSE 0]
    /\ last.scalar = ScalarOne
    /\ last.result = last.point

\* a point whose y is close to the modulus, times one
C27_WitnessNegative ==
    /\ LastScalarMul
    /\ SubSeq(last.point, 33, 64) = ModulusMinus(2)
    /\ last.scalar = ScalarOne
    /\ last.result = last.point

\* the bytes and the names of the points agree on every product
C27_BytesAgreeWithNames ==
    LastScalarMul =>
        LET named == g1_scalar_mul(G1Name(last.point), last.scalar)
        IN  /\ named.err = last.err
            /\ named.err = "Ok" => named.point = G1Name(last.result)

----------------------------------------------------------------------------
(* C25: a spend instruction fails, records no nullifier and changes no     *)
(* account when the root its proof was generated against is not one of     *)
(* the cached roots of the tree.                                           *)
C25_StaleRootRejected ==
    [][(last'.op \in SpendOps
        /\ ~contains_root(merkle_tree, last'.call.root))
       => (last'.err # "Ok" /\ ~("track" \in Range(last'.fx))
           /\ nullifier_set' = nullifier_set)]_vars

\* a spend whose proof refers to a root the tree has evicted, and one whose
\* proof refers to a root the tree never had, succeed
C25_EvictedRootAccepted ==
    /\ last.op = "partial_withdraw"
    /\ last.err = "Ok"
    /\ merkle_tree.height = RingHeight
    /\ last.call.root = InitialRoot(RingHeight)
    /\ ~contains_root(merkle_tree, last.call.root)
    /\ last.call.nullifier \in Range(nullifier_set)

C25_UnknownRootAccepted ==
    /\ last.op = "shielded_transfer"
    /\ last.err = "Ok"
    /\ last.call.root = NeverRoot
    /\ \A i \in 1..Len(last.call.input_nullifiers) :
          last.call.input_nullifiers[i] \in Range(nullifier_set)

----------------------------------------------------------------------------
Occurrences(set, tag) == Cardinality({i \in 1..Len(set) : set[i] = tag})

C29_WitnessCapacity ==
    /\ last.op = "shielded_transfer"
    /\ last.err = "CapacityExceeded"
    /\ Len(last.left.set) = MAX_NULLIFIERS
    /\ Len(nullifier_set) < MAX_NULLIFIERS

\* the tree fills up in the middle of the commitment loop, after every
\* nullifier was tracked
C29_WitnessTreeFull ==
    /\ last.op = "shielded_transfer"
    /\ last.err = "TreeFull"
    /\ "append" \in Range(last.fx)
    /\ last.left.tree.current_index = merkle_tree.current_index + 1
    /\ Len(last.left.set) > Len(nullifier_set)

----------------------------------------------------------------------------
Repeats(ns) == \E i, j \in 1..Len(ns) : i < j /\ ns[i] = ns[j]
TracksBeforeAppends(fx) ==
    \A i, j \in 1..Len(fx) : (fx[i] = "track" /\ fx[j] = "append") => i < j

C30_WitnessSuccess ==
    /\ last.op = "shielded_transfer"
    /\ last.err = "Ok"
    /\ Len(last.call.input_nullifiers) = 3
    /\ Len(last.call.output_commitments) = 2
    /\ last.fx[Len(last.fx)] = "append"

\* the set fills up before the repeat is reached
C30_WitnessCapacityFirst ==
    /\ last.op = "shielded_transfer"
    /\ Repeats(last.call.input_nullifiers)
    /\ last.err = "CapacityExceeded"

----------------------------------------------------------------------------
(* C26: of two spends that carry the same nullifier and are served one     *)
(* after the other, in either order, no more than one succeeds; when each  *)
(* of them would succeed if it were the only one (its proof verifies, the  *)
(* nullifier is not in the set, the set and the tree have room and its     *)
(* transfer is accepted), the one served first succeeds, the other fails   *)
(* with NullifierUsed, and the set then holds the nullifier exactly once.  *)
Appends(tx) == tx.fn \in {"shielded_transfer", "partial_withdraw"}
SucceedsAlone(tx, before) ==
    /\ tx.proof = HonestProof
    /\ ~(tx.nullifier \in Range(before.set))
    /\ Len(before.set) < MAX_NULLIFIERS
    /\ tx.accepted = 1 \/ tx.fn = "shielded_transfer"
    /\ Appends(tx) => tree_has_room(before.tree)

C26_WitnessLastEntry ==
    /\ last.op = "race"
    /\ \A i \in 1..2 : SucceedsAlone(last.txs[i], last.before)
    /\ last.order = <<1, 2>>
    /\ last.results = <<"Ok", "NullifierUsed">>
    /\ Len(nullifier_set) = MAX_NULLIFIERS

\* two spends of a nullifier the set already holds both fail
C26_WitnessSpentBefore ==
    /\ last.op = "race"
    /\ last.results = <<"NullifierUsed", "NullifierUsed">>

----------------------------------------------------------------------------
AdminOps ==
    {"set_verifier", "set_withdraw_verifier", "set_transfer_verifier",
     "set_partial_withdraw_verifier", "set_fee", "set_fee_collector",
     "reset_nullifiers"}

(* C34: set_verifier, set_withdraw_verifier, set_transfer_verifier,        *)
(* set_partial_withdraw_verifier, set_fee, set_fee_collector and           *)
(* reset_nullifiers fail when the signer is not global_state.admin, and    *)
(* leave the verifying keys, the fees, the fee collector and the nullifier *)
(* set as they were.                                                       *)
C34_AdminInstructionsAuthorized ==
    [][(last'.op \in AdminOps /\ last'.signer # global_state.admin)
       => /\ last'.err \in {"Unauthorized", "ConstraintHasOne",
                            "AccountNotInitialized"}
          /\ global_state.exists
                => last'.err \in {"Unauthorized", "ConstraintHasOne"}
          /\ UNCHANGED Accounts]_vars

\* set_fee signed by another account than the admin is refused by the
\* has_one constraint, on a deployment whose fees it would have changed
C34_Witness ==
    /\ last.op = "set_fee"
    /\ last.signer = "other"
    /\ global_state.exists
    /\ global_state.admin = "admin"
    /\ last.err = "ConstraintHasOne"
    /\ global_state.shield_fee_bps = BPS_DENOMINATOR

\* a verifier rotation signed by another account is refused by the handler
C34_WitnessRotation ==
    /\ last.op = "set_withdraw_verifier"
    /\ last.signer = "other"
    /\ global_state.exists
    /\ last.err = "Unauthorized"
    /\ verifiers["withdraw_verifier"].verifying_key = GoodKey

\* the same instructions signed by the admin go through
C34_WitnessAdmin ==
    /\ last.op = "set_fee_collector"
    /\ last.signer = global_state.admin
    /\ last.err = "Ok"

----------------------------------------------------------------------------
SetKeyOps ==
    {"set_verifier", "set_withdraw_verifier", "set_transfer_verifier",
     "set_partial_withdraw_verifier"}
KeyEmptyOrValid(v) ==
    \/ v.verifying_key = EmptyBlob
    \/ validate_verifier_key_blob(v.verifying_key) = "Ok"

(* C35: the verifying_key of every verifier account is empty or a blob     *)
(* that validate_verifier_key_blob accepts; a set_*_verifier call that     *)
(* fails leaves every key as it was, one that succeeds installs a blob     *)
(* that validates in one account and leaves the others alone; and          *)
(* verify_groth16 on a verifier account of the program never returns       *)
(* InvalidVerifierKey.                                                     *)
C35_InstalledKeysValidate ==
    /\ [](\A name \in VerifierNames : KeyEmptyOrValid(verifiers[name]))
    /\ [](last.verify # "InvalidVerifierKey")
    /\ [][last'.op \in SetKeyOps
          => IF last'.err # "Ok" THEN verifiers' = verifiers
             ELSE \E name \in VerifierNames :
                     /\ verifiers'[name].exists
                     /\ validate_verifier_key_blob(
                            verifiers'[name].verifying_key) = "Ok"
                     /\ \A other \in VerifierNames \ {name} :
                           verifiers'[other] = verifiers[other]]_vars

\* the admin presents a blob that does not validate; the key installed
\* before stays
C35_Witness ==
    /\ last.op = "set_transfer_verifier"
    /\ last.signer = global_state.admin
    /\ last.err = "InvalidVerifierKey"
    /\ last.stage = "key"
    /\ verifiers["transfer_verifier"].verifying_key = GoodKey

\* the deposit key is empty after initialize and replaced by the first
\* successful set_verifier
C35_WitnessInstalled ==
    /\ last.op = "set_verifier"
    /\ last.err = "Ok"
    /\ verifiers["verifier"].verifying_key = GoodKey
    /\ ~verifiers["withdraw_verifier"].exists

\* a proof is verified against a key that set_verifier installed
C35_WitnessVerified ==
    /\ last.op = "transparent_deposit"
    /\ last.verify = "Ok"
    /\ ~verifiers["withdraw_verifier"].exists

\* a proof presented while the key is still empty
C35_WitnessEmptyKey ==
    /\ last.op = "transparent_deposit"
    /\ verifiers["verifier"].verifying_key = EmptyBlob
    /\ last.verify = "VerifierMissing"

----------------------------------------------------------------------------
(* C36: initialize succeeds only on a program that has no state yet and    *)
(* only for 1 <= tree_height <= MAX_TREE_HEIGHT = 14; any other height     *)
(* fails with CapacityExceeded and creates nothing, and a second           *)
(* initialize fails. A successful initialize leaves a tree of the height   *)
(* asked for with no leaf, an empty nullifier set and an empty deposit     *)
(* verifier key. Once the program has state the height never changes and   *)
(* lies in 1..14.                                                          *)
C36_InitializeOnceWithinHeight ==
    /\ [](global_state.exists => merkle_tree.height \in 1..MAX_TREE_HEIGHT)
    /\ [](MAX_TREE_HEIGHT = 14)
    /\ [][global_state.exists
          => global_state'.exists /\ merkle_tree'.height = merkle_tree.height]_vars
    /\ [][last'.op = "initialize"
          => /\ (last'.err = "Ok")
                  <=> /\ ~global_state.exists
                      /\ last'.tree_height \in 1..MAX_TREE_HEIGHT
             /\ ~global_state.exists
                /\ last'.tree_height \notin 1..MAX_TREE_HEIGHT
                  => last'.err = "CapacityExceeded"
             /\ last'.err # "Ok"
                  => UNCHANGED <<Accounts, leaves, roots>>
             /\ last'.err = "Ok"
                  => /\ global_state'.exists
                     /\ merkle_tree'.height = last'.tree_height
                     /\ merkle_tree'.current_index = 0
                     /\ nullifier_set' = <<>>
                     /\ verifiers'["verifier"] =
                           [exists |-> TRUE, verifying_key |-> EmptyBlob]]_vars

\* a height above the limit is refused and no account is created
C36_Witness ==
    /\ last.op = "initialize"
    /\ last.tree_height = MAX_TREE_HEIGHT + 1
    /\ last.err = "CapacityExceeded"
    /\ last.stage = "height"
    /\ ~global_state.exists
    /\ merkle_tree = EmptyAccount

\* height zero passes the limit and is refused by the tree
C36_WitnessZero ==
    /\ last.op = "initialize"
    /\ last.tree_height = 0
    /\ last.err = "CapacityExceeded"
    /\ last.stage = "tree"
    /\ ~global_state.exists

C36_WitnessCreated ==
    /\ last.op = "initialize"
    /\ last.err = "Ok"
    /\ merkle_tree.height = last.tree_height
    /\ nullifier_set = <<>>
    /\ verifiers["verifier"].verifying_key = EmptyBlob

\* a second initialize, with a height the first would have accepted
C36_WitnessSecond ==
    /\ last.op = "initialize"
    /\ last.tree_height \in 1..MAX_TREE_HEIGHT
    /\ last.err = "AccountInUse"
    /\ global_state.exists
    /\ merkle_tree.current_index > 0

----------------------------------------------------------------------------
(* C37: in every state of a deployed program priority_fee_bps >=           *)
(* shield_fee_bps. A successful initialize or set_fee stores the           *)
(* shield_fee_bps it was given and the larger of the two fees it was given *)
(* as priority_fee_bps, so the fee transparent_deposit computes for the    *)
(* priority lane is never lower than the one for the normal lane on the    *)
(* same amount.                                                            *)
C37_PriorityFeeAtLeastShieldFee ==
    /\ [](global_state.exists
            => /\ global_state.priority_fee_bps >= global_state.shield_fee_bps
               /\ \A amount \in Amounts :
                     deposit_fee(amount, global_state.priority_fee_bps)
                        >= deposit_fee(amount, global_state.shield_fee_bps))
    /\ [][last'.op \in {"initialize", "set_fee"} /\ last'.err = "Ok"
          => /\ global_state'.shield_fee_bps = last'.fees[1]
             /\ global_state'.priority_fee_bps =
                   IF last'.fees[2] >= last'.fees[1] THEN last'.fees[2]
                   ELSE last'.fees[1]]_vars

\* set_fee is given a priority fee below the shield fee
C37_Witness ==
    /\ last.op = "set_fee"
    /\ last.err = "Ok"
    /\ last.fees[2] < last.fees[1]
    /\ global_state.priority_fee_bps = last.fees[1]

\* initialize is given a priority fee below the shield fee
C37_WitnessInitialize ==
    /\ last.op = "initialize"
    /\ last.err = "Ok"
    /\ last.fees[2] < last.fees[1]
    /\ global_state.priority_fee_bps = last.fees[1]

\* a priority fee above the shield fee is stored as given, and a deposit
\* on the priority lane pays a fee
C37_WitnessHigher ==
    /\ global_state.exists
    /\ global_state.priority_fee_bps > global_state.shield_fee_bps
    /\ last.op = "transparent_deposit"
    /\ last.err = "Ok"
    /\ Len(SelectSeq(last.fx, LAMBDA e : e = "transfer")) = 2

----------------------------------------------------------------------------
(* C38: a successful transparent_deposit appends one leaf, the commitment  *)
(* it was given, emits one CommitmentInserted event that carries the       *)
(* commitment and the nullifier it was given and whose new_root is         *)
(* latest_root() of the tree after the insertion, and leaves the nullifier *)
(* set as it was: the nullifier is in the set afterwards only if it was    *)
(* there before.                                                           *)
C38_DepositAppendsOneLeaf ==
    [][last'.op = "transparent_deposit" /\ last'.err = "Ok"
       => /\ leaves' = Append(leaves, last'.commitment)
          /\ merkle_tree' = append_leaf(merkle_tree, last'.commitment).tree
          /\ merkle_tree'.current_index = merkle_tree.current_index + 1
          /\ Len(SelectSeq(last'.fx, LAMBDA e : e = "append")) = 1
          /\ Len(SelectSeq(last'.fx, LAMBDA e : e = "emit")) = 1
          /\ last'.events =
                <<CommitmentInserted(last'.commitment, last'.nullifier,
                                     latest_root(merkle_tree'),
                                     last'.events[1].is_priority)>>
          /\ roots' = Append(roots, latest_root(merkle_tree'))
          /\ nullifier_set' = nullifier_set
          /\ Occurrences(nullifier_set', last'.nullifier)
                = Occurrences(nullifier_set, last'.nullifier)
          /\ UNCHANGED <<global_state, verifiers>>]_vars

\* a deposit whose nullifier is not in the set before or after
C38_Witness ==
    /\ last.op = "transparent_deposit"
    /\ last.err = "Ok"
    /\ Len(last.events) = 1
    /\ last.events[1].nullifier = last.nullifier
    /\ Occurrences(nullifier_set, last.nullifier) = 0
    /\ leaves # <<>>

\* a deposit goes through while the nullifier set is full
C38_WitnessFullSet ==
    /\ last.op = "transparent_deposit"
    /\ last.err = "Ok"
    /\ Len(nullifier_set) = MAX_NULLIFIERS
    /\ merkle_tree.current_index > 0

\* the second deposit into a tree: its event carries the second root
C38_WitnessSecond ==
    /\ last.op = "transparent_deposit"
    /\ last.err = "Ok"
    /\ Len(leaves) = 2
    /\ Len(roots) = 2
    /\ roots[1] # roots[2]
    /\ last.events[1].new_root = roots[2]

----------------------------------------------------------------------------
WithdrawOps ==
    {"transparent_withdraw", "transparent_withdraw_sol", "partial_withdraw"}
WithdrawVerifier(op) ==
    IF op = "partial_withdraw" THEN "partial_withdraw_verifier"
    ELSE "withdraw_verifier"
Has(fx, e) == \E i \in 1..Len(fx) : fx[i] = e

(* C32: in transparent_withdraw, transparent_withdraw_sol and              *)
(* partial_withdraw the transfer out of the vault happens only in a call   *)
(* whose proof verified and which recorded its nullifier, new to the set,  *)
(* before the transfer; a call that fails at the verification or at        *)
(* track_nullifier makes no transfer; and the NullifierConsumed event is   *)
(* emitted only after the transfer, as the last effect of a call that      *)
(* succeeds.                                                               *)
C32_TransferAfterVerifyAndTrack ==
    [][last'.op \in WithdrawOps
       => LET fx == last'.fx
              call == last'.call
              verified ==
                  verify_groth16_of(verifiers[WithdrawVerifier(last'.op)],
                                    call.proof, call.public_inputs) = "Ok"
          IN  /\ Has(fx, "transfer")
                   => /\ verified
                      /\ Len(fx) >= 2 /\ fx[1] = "track" /\ fx[2] = "transfer"
                      /\ Occurrences(nullifier_set, call.nullifier) = 0
                      /\ last'.left.set = Append(nullifier_set, call.nullifier)
              /\ ~verified => last'.err # "Ok" /\ fx = <<>>
              /\ last'.stage \in {"verify", "track"} => ~Has(fx, "transfer")
              /\ track_nullifier(nullifier_set, call.nullifier).err # "Ok"
                   => last'.err # "Ok" /\ ~Has(fx, "transfer")
              /\ Has(fx, "emit")
                   => /\ last'.err = "Ok"
                      /\ fx[Len(fx)] = "emit"
                      /\ Len(SelectSeq(fx, LAMBDA e : e = "emit")) = 1
                      /\ Has(SubSeq(fx, 1, Len(fx) - 1), "transfer")
              /\ last'.err = "Ok"
                   => Has(fx, "transfer") /\ Has(fx, "emit")]_vars

\* a withdrawal that paid out after recording a new nullifier
C32_Witness ==
    /\ last.op \in WithdrawOps
    /\ last.err = "Ok"
    /\ last.fx[1] = "track"
    /\ last.fx[2] = "transfer"
    /\ nullifier_set = last.left.set
    /\ Occurrences(nullifier_set, last.call.nullifier) = 1

\* a verified proof whose nullifier is already in the set: nothing is paid
C32_WitnessSpent ==
    /\ last.op \in WithdrawOps
    /\ last.err = "NullifierUsed"
    /\ last.stage = "track"
    /\ last.call.accepted = 1
    /\ last.fx = <<>>

\* a proof that does not verify, with a nullifier the set would have taken
C32_WitnessForged ==
    /\ last.op \in WithdrawOps
    /\ last.stage = "verify"
    /\ last.call.accepted = 1
    /\ Occurrences(nullifier_set, last.call.nullifier) = 0
    /\ Len(nullifier_set) < MAX_NULLIFIERS
    /\ last.fx = <<>>

\* partial_withdraw pays out and then fails to append: no event
C32_WitnessNoEvent ==
    /\ last.op = "partial_withdraw"
    /\ last.stage = "append"
    /\ Has(last.fx, "transfer")
    /\ ~Has(last.fx, "emit")

----------------------------------------------------------------------------
\* the amount argument of a withdrawal
AmountOf(call) ==
    IF call.fn = "partial_withdraw" THEN call.withdraw_amount ELSE call.amount

(* C33: a withdrawal (transparent_withdraw, transparent_withdraw_sol,      *)
(* partial_withdraw) called with an amount of zero fails with              *)
(* InvalidAmount before the proof is verified, and records no nullifier    *)
(* and appends no leaf.                                                    *)
C33_ZeroAmountRefused ==
    last.op \in WithdrawOps /\ AmountOf(last.call) = 0
        => /\ last.err = "InvalidAmount"
           /\ last.stage = "amount"
           /\ last.fx = <<>>

\* transparent_withdraw_sol goes through with an amount of zero and
\* records the nullifier
C33_ZeroAmountAccepted ==
    /\ last.op = "transparent_withdraw_sol"
    /\ last.call.amount = 0
    /\ last.err = "Ok"
    /\ last.fx = <<"track", "transfer", "emit">>
    /\ Occurrences(nullifier_set, last.call.nullifier) = 1

\* the instructions that check the amount refuse zero ahead of a forged
\* proof
C33_CheckedAmountRefused ==
    /\ last.op \in {"transparent_withdraw", "partial_withdraw"}
    /\ AmountOf(last.call) = 0
    /\ last.call.proof # HonestProof
    /\ last.err = "InvalidAmount"

----------------------------------------------------------------------------
(* C39: read_g1_be returns InvalidProof for an input that is not 64 bytes  *)
(* long, and for a 64-byte input returns the input with the top bit of the *)
(* first byte of each 32-byte coordinate cleared (out[0] & 0x7F and        *)
(* out[32] & 0x7F) and every other bit as it was.                          *)
C39_HighBitsCleared ==
    last.op = "read_g1_be"
        => IF Len(last.src_be) # G1_BYTES
           THEN last.err = "InvalidProof"
           ELSE /\ last.err = "Ok"
                /\ last.out = [last.src_be EXCEPT ![1] = @ % 128,
                                                  ![FIELD_BYTES + 1] = @ % 128]

\* a 64-byte input with the top bit of both coordinates set comes back as
\* it went in
C39_HighBitsKept ==
    /\ last.op = "read_g1_be"
    /\ Len(last.src_be) = G1_BYTES
    /\ last.src_be[1] >= 128
    /\ last.src_be[FIELD_BYTES + 1] >= 128
    /\ last.err = "Ok"
    /\ last.out = last.src_be

\* an input one byte short is refused
C39_WrongLengthRefused ==
    /\ last.op = "read_g1_be"
    /\ Len(last.src_be) = G1_BYTES - 1
    /\ last.err = "InvalidProof"

\* what holds of read_g1_be: the length check, and the 64 bytes copied
C39_CopiesSixtyFourBytes ==
    last.op = "read_g1_be"
        => IF Len(last.src_be) # G1_BYTES
           THEN last.err = "InvalidProof"
           ELSE last.err = "Ok" /\ last.out = last.src_be

----------------------------------------------------------------------------
(* One proof presented twice.  Two withdrawals are submitted one after the *)
(* other with the same proof and the same public inputs; each names its    *)
(* own nullifier, and no reset comes between them.  results holds the      *)
(* outcome of the calls served so far.                                     *)

ReplayTxs ==
    [fn : WithdrawOps, amount : {1}, commitment : ProgLeaves,
     nullifier : RaceTags, proof : SpendProofs,
     public_inputs : {<<Small(1)>>}, accepted : 0..1]

InitReplay ==
    /\ global_state = Deployed
    /\ verifiers = [v \in VerifierNames |->
                       [exists |-> TRUE, verifying_key |-> GoodKey]]
    /\ merkle_tree \in RaceTrees
    /\ nullifier_set \in RaceSets
    /\ leaves = <<>>
    /\ roots = <<>>
    /\ \E tx1, tx2 \in ReplayTxs :
          /\ tx2.proof = tx1.proof
          /\ tx2.public_inputs = tx1.public_inputs
          /\ last = [op |-> "replay", txs |-> <<tx1, tx2>>,
                     before |-> nullifier_set, results |-> <<>>]

Replayed(r) ==
    /\ last' = [last EXCEPT !.results =
                   Append(@, [err |-> r.err, stage |-> r.stage, fx |-> r.fx])]
    /\ Commit(r)

Replay ==
    /\ last.op = "replay"
    /\ Len(last.results) < Len(last.txs)
    /\ Replayed(Handle(last.txs[Len(last.results) + 1]))

NextReplay == Replay

SpecReplay == InitReplay /\ [][NextReplay]_vars

(* C31: after a withdrawal (transparent_withdraw, transparent_withdraw_sol *)
(* or partial_withdraw) succeeded with a proof and public inputs, a later  *)
(* withdrawal that presents the same proof and public inputs fails,        *)
(* whatever nullifier it names, with no reset in between.                  *)
C31_ProofSpendsOnce ==
    /\ last.op = "replay"
    /\ Len(last.results) = 2
    /\ last.results[1].err = "Ok"
    => last.results[2].err # "Ok"

\* the same proof pays out twice under two nullifiers
C31_ProofPaidTwice ==
    /\ last.op = "replay"
    /\ Len(last.results) = 2
    /\ last.txs[1].fn = last.txs[2].fn
    /\ last.txs[1].nullifier # last.txs[2].nullifier
    /\ last.results[1].err = "Ok"
    /\ last.results[2].err = "Ok"
    /\ Has(last.results[2].fx, "transfer")
    /\ nullifier_set =
          last.before \o <<last.txs[1].nullifier, last.txs[2].nullifier>>

\* the replay is refused only when it names the nullifier of the first call
C31_SameNullifierRefused ==
    /\ last.op = "replay"
    /\ Len(last.results) = 2
    /\ last.txs[1].nullifier = last.txs[2].nullifier
    /\ last.results[1].err = "Ok"
    /\ last.results[2].err = "NullifierUsed"

============================================================================
